---- MODULE Spec2Model ----
(***************************************************************************)
(* Model of the FlowLang runtime: the handle registry, the timer and web   *)
(* bridges, and the drain loop of run_file.                                *)
(***************************************************************************)
EXTENDS Integers, Sequences, FiniteSets, TLC

\* ------------------------------------------------------------------ bounds
\* number of register_handle calls in a run
MaxHandles == 2
\* length of the (unbounded) timer-callback queue
MaxQueue == 2
\* nesting depth of callbacks on one evaluator
MaxDepth == 2
\* number of web callback requests posted in a run
MaxChan == 2
\* RuntimeConfig.max_concurrent_web_handlers (250 by default, configurable)
MaxPermits == 1
\* batch_size of run_file
batch_size == 10
\* number of steps of the registry-only specification
MaxOps == 4
\* number of timer.clear calls of a program
MaxClears == 2
\* scopes a program opens beside the global one
MaxScopes == 2
\* import statements of one file
MaxImports == 2
\* statements of a program after its first
MaxStmts == 2
\* rescue clauses of an attempt
MaxClauses == 2
\* the N of `retry N`, and the failures of an attempt body
MaxRetry == 2
\* the number literals of a division
MaxNum == 2
\* the elements of an array
MaxArr == 3
\* the arguments the host passes to execute_function
MaxArgs == 3
\* the statements of a file that imports modules and starts timers
MaxModuleStmts == 2
\* the characters of a package URL
MaxUrl == 7

HandleIds == 1..MaxHandles
ChanIds == 1..MaxChan
\* evaluator 0 is the main interpreter, evaluator c the clone running request c
Evals == 0..MaxChan

\* bodies of timer callbacks and of web handlers
CbKinds == {"plain", "wait", "clear"}
HandlerKinds == {"plain", "wait", "err"}
TimerTypes == {"Interval", "Timeout"}
HandleTypes == {"Interval", "Timeout", "HttpServer"}

VARIABLES
    registry,     \* HandleRegistry: [handles, next_id]
    live,         \* history: ids added and not yet removed
    issued,       \* history: ids returned by register_handle, in order
    lastOp,       \* history: the last registry operation and its result
    nops,         \* steps taken by the registry-only specification
    shutdown,     \* Runtime.shutdown
    callbackQ,    \* timer-callback channel
    webQ,         \* web-callback channel
    permits,      \* web_handler_semaphore.available_permits()
    task,         \* per handle: state of the owning background task
    cancelRx,     \* per handle: state of the cancel / shutdown one-shot receiver
    cb,           \* per handle: body of the callback / handler given at registration
    acc,          \* per server: state of the request handler task (acceptor)
    nextChan,     \* next fresh reply channel
    reply,        \* per reply channel: [sends, tx, value]
    hs,           \* per request: state of the spawned handler task
    stack,        \* per evaluator: callbacks being executed, innermost last
    pc,           \* position of run_file
    loop_batch,   \* run_file's loop_batch
    cur,          \* web request taken by the drain loop, being spawned
    exitBy,       \* why the drain loop ended
    lost,         \* history: callback requests still queued when the loop ended
    clearLog,     \* history: the calls of timer.clear with what they returned
    R,            \* a handler result given to extract_response
    out,          \* what extract_response made of R
    resp,         \* per request: status of the HTTP response written (0: none yet)
    env,          \* per evaluator: Interpreter.env, the scope stack
    envOp,        \* history: the last scope operation of a program, and the stack before
    prog,         \* per file: its import statements
    frames,       \* the interpreters at work on a file, the entry file's first
    runs,         \* history: per file, how often its top-level code ran as a module
    importErr,    \* the error that ended the run of the imports
    program,      \* the statements of the entry file, as parsed
    ast,          \* the program after the optimizer, which the interpreter executes
    interp,       \* the interpreter executing them, with its history
    ip,           \* the next statement of the program
    stmtResult,   \* what the last statement executed returned
    call,         \* the call of execute_function the host made, once it returned
    runtimes,     \* every Runtime created in the process, in the order of creation
    interps,      \* the interpreters executing files: the entry file's, then modules'
    timers,       \* the timeout tasks spawned, with the Runtime each one holds
    mainLoop,     \* where run_file is, and the callbacks its loop has executed
    url,          \* the package URL given to PackageSpec::parse
    parsed        \* what PackageSpec::parse returned for it

vars == <<registry, live, issued, lastOp, nops, shutdown, callbackQ, webQ, permits,
          task, cancelRx, cb, acc, nextChan, reply, hs, stack, pc, loop_batch, cur,
          exitBy, lost, clearLog, R, out, resp, env, envOp, prog, frames, runs,
          importErr, program, ast, interp, ip, stmtResult, call, runtimes, interps,
          timers, mainLoop, url, parsed>>

\* the state beside the event loop's
extractVars == <<R, out>>
envVars == <<env, envOp>>
importVars == <<prog, frames, runs, importErr>>
stmtVars == <<program, ast, interp, ip, stmtResult, call>>
rtVars == <<runtimes, interps, timers, mainLoop>>
pkgVars == <<url, parsed>>
restVars == <<clearLog, extractVars, resp, envVars, importVars, stmtVars, rtVars, pkgVars>>

histVars == <<live, issued, lastOp>>
webVars == <<webQ, permits, acc, nextChan, reply, hs, cur, loop_batch>>

\* ------------------------------------------------------------------ Value
\* a String is a sequence of characters; the characters the model's values use,
\* in byte order
Chars == <<" ", "#", "(", ")", ",", "-", ".", "/", "0", "1", "2", "3", "4", "5", "6", "7", "8", "9", ":",
           "<", "E", "H", "T", "[", "]", "a", "b", "c", "d", "e", "f", "h", "i", "j", "k",
           "l", "m", "n", "o", "p", "r", "s", "t", "u", "v", "x", "y", "{", "}">>

CharCode(c) == CHOOSE i \in DOMAIN Chars : Chars[i] = c

\* str < str of Rust: lexicographic by byte
RECURSIVE StrLess(_, _)
StrLess(a, b) ==
    IF b = << >> THEN FALSE
    ELSE IF a = << >> THEN TRUE
    ELSE IF Head(a) # Head(b) THEN CharCode(Head(a)) < CharCode(Head(b))
    ELSE StrLess(Tail(a), Tail(b))

\* entries.sort()
RECURSIVE SortedSeq(_)
SortedSeq(S) ==
    IF S = {} THEN << >>
    ELSE LET m == CHOOSE x \in S : \A y \in S \ {x} : StrLess(x, y) IN
         <<m>> \o SortedSeq(S \ {m})

\* elements.join(sep)
RECURSIVE Join(_, _)
Join(strs, sep) ==
    IF strs = << >> THEN << >>
    ELSE IF Len(strs) = 1 THEN strs[1]
    ELSE strs[1] \o sep \o Join(Tail(strs), sep)

\* format!("{}", n) of a non-negative integer
DigitChars == <<"0", "1", "2", "3", "4", "5", "6", "7", "8", "9">>

RECURSIVE Digits(_)
Digits(n) ==
    IF n < 10 THEN <<DigitChars[n + 1]>>
    ELSE Digits(n \div 10) \o <<DigitChars[(n % 10) + 1]>>

\* Value::Number(f64) is kept as its integer part and one decimal of its fraction
V_Number(int, frac) == [tag |-> "Number", int |-> int, frac |-> frac]
V_String(str) == [tag |-> "String", s |-> str]
V_Boolean(b) == [tag |-> "Boolean", b |-> b]
V_Array(arr) == [tag |-> "Array", arr |-> arr]
V_Relic(map) == [tag |-> "Relic", map |-> map]
V_Null == [tag |-> "Null"]
V_Handle(id) == [tag |-> "Handle", id |-> id]

\* Value::to_string
RECURSIVE to_string(_)
to_string(v) ==
    CASE v.tag = "Number" ->
            (IF v.int < 0 THEN <<"-">> \o Digits(0 - v.int) ELSE Digits(v.int))
            \o (IF v.frac = 0 THEN << >> ELSE <<".">> \o Digits(v.frac))
      [] v.tag = "String" -> v.s
      [] v.tag = "Boolean" ->
            IF v.b THEN <<"t", "r", "u", "e">> ELSE <<"f", "a", "l", "s", "e">>
      [] v.tag = "Array" ->
            <<"[">> \o Join([i \in DOMAIN v.arr |-> to_string(v.arr[i])], <<",", " ">>)
            \o <<"]">>
      [] v.tag = "Relic" ->
            <<"{", " ">>
            \o Join(SortedSeq({k \o <<":", " ">> \o to_string(v.map[k]) :
                                   k \in DOMAIN v.map}), <<",", " ">>)
            \o <<" ", "}">>
      [] v.tag = "Null" -> <<"n", "u", "l", "l">>
      [] v.tag = "Handle" -> <<"H", "a", "n", "d", "l", "e", "(", "#">> \o Digits(v.id)
                             \o <<")">>

\* str::trim: the whitespace at both ends removed
RECURSIVE trim_start(_)
trim_start(str) ==
    IF str # << >> /\ Head(str) = " " THEN trim_start(Tail(str)) ELSE str

RECURSIVE trim_end(_)
trim_end(str) ==
    IF str # << >> /\ str[Len(str)] = " "
    THEN trim_end(SubSeq(str, 1, Len(str) - 1)) ELSE str

trim(str) == trim_end(trim_start(str))

starts_with(str, c) == str # << >> /\ Head(str) = c

\* f64 as u16: the fraction dropped, saturating at the ends of the range
as_u16(v) == IF v.int < 0 THEN 0 ELSE IF v.int > 65535 THEN 65535 ELSE v.int

\* --------------------------------------------------- response materialization
K_status == <<"s", "t", "a", "t", "u", "s">>
K_body == <<"b", "o", "d", "y">>
K_contentType == <<"c", "o", "n", "t", "e", "n", "t", "T", "y", "p", "e">>
K_headers == <<"h", "e", "a", "d", "e", "r", "s">>

\* map.get(key): Option<&Value> as a sequence of length 0 or 1
map_get(map, key) == IF key \in DOMAIN map THEN <<map[key]>> ELSE << >>

text_plain == <<"t", "e", "x", "t", "/", "p", "l", "a", "i", "n">>
text_html == <<"t", "e", "x", "t", "/", "h", "t", "m", "l">>
application_json == <<"a", "p", "p", "l", "i", "c", "a", "t", "i", "o", "n", "/",
                      "j", "s", "o", "n">>

\* a detection that looks at the first character of the body as it is
detect_no_trim(body) ==
    IF starts_with(body, "{") \/ starts_with(body, "[") THEN application_json
    ELSE IF starts_with(body, "<") THEN text_html
    ELSE text_plain

\* the auto-detection of extract_response
detect(body) ==
    LET trimmed == trim(body) IN
    IF starts_with(trimmed, "{") \/ starts_with(trimmed, "[") THEN application_json
    ELSE IF starts_with(trimmed, "<") THEN text_html
    ELSE text_plain

extract_response(value) ==
    LET plain(st, body) == [status |-> st, body |-> body, content_type |-> text_plain,
                            headers |-> << >>] IN
    CASE value.tag = "Relic" ->
            LET map == value.map
                status == IF map_get(map, K_status) # << >>
                             /\ map_get(map, K_status)[1].tag = "Number"
                          THEN as_u16(map_get(map, K_status)[1]) ELSE 200
                body == IF map_get(map, K_body) # << >>
                        THEN to_string(map_get(map, K_body)[1]) ELSE << >>
                content_type ==
                    IF map_get(map, K_contentType) # << >>
                       /\ map_get(map, K_contentType)[1].tag = "String"
                    THEN map_get(map, K_contentType)[1].s
                    ELSE detect(body)
                headers == IF map_get(map, K_headers) # << >>
                              /\ map_get(map, K_headers)[1].tag = "Relic"
                           THEN LET h == map_get(map, K_headers)[1].map IN
                                [k \in DOMAIN h |-> to_string(h[k])]
                           ELSE << >> IN
            [status |-> status, body |-> body, content_type |-> content_type,
             headers |-> headers]
      [] value.tag = "String" -> plain(200, value.s)
      [] value.tag = "Number" -> plain(as_u16(value), << >>)
      [] value.tag = "Null" -> plain(204, << >>)
      [] OTHER -> plain(200, to_string(value))

\* ------------------------------------------------------------ Environment
\* scopes: Vec<HashMap<String, (Value, bool, bool)>>, the global scope first
Environment_new == << << >> >>

push_scope(scopes) == Append(scopes, << >>)

\* a pop without the length test
pop_scope_always(scopes) == SubSeq(scopes, 1, Len(scopes) - 1)

pop_scope(scopes) ==
    IF Len(scopes) > 1 THEN SubSeq(scopes, 1, Len(scopes) - 1) ELSE scopes

define_with_export(scopes, name, value, is_mutable, is_exported) ==
    IF scopes # << >>
    THEN [scopes EXCEPT ![Len(scopes)] =
             (name :> [value |-> value, is_mutable |-> is_mutable,
                       is_exported |-> is_exported]) @@ @]
    ELSE scopes

define(scopes, name, value, is_mutable) ==
    define_with_export(scopes, name, value, is_mutable, FALSE)

\* the innermost scope that binds the name, 0 when none does
ScopeOf(scopes, name) ==
    LET has == {i \in DOMAIN scopes : name \in DOMAIN scopes[i]} IN
    IF has = {} THEN 0 ELSE CHOOSE i \in has : \A j \in has : j <= i

\* Environment::get: Option<Value> as a sequence of length 0 or 1
Environment_get(scopes, name) ==
    IF ScopeOf(scopes, name) = 0 THEN << >>
    ELSE <<scopes[ScopeOf(scopes, name)][name].value>>

\* Environment::set: the environment after the call, and Ok or the error
Environment_set_unsealed(scopes, name, value) ==
    LET i == ScopeOf(scopes, name) IN
    IF i = 0 THEN [scopes |-> scopes, result |-> "undefined"]
    ELSE [scopes |-> [scopes EXCEPT ![i][name].value = value], result |-> "ok"]

Environment_set(scopes, name, value) ==
    LET i == ScopeOf(scopes, name) IN
    IF i = 0 THEN [scopes |-> scopes, result |-> "undefined"]
    ELSE IF ~scopes[i][name].is_mutable THEN [scopes |-> scopes, result |-> "sealed"]
    ELSE [scopes |-> [scopes EXCEPT ![i][name].value = value], result |-> "ok"]

\* the exported members of the global scope
get_all_public(scopes) ==
    IF scopes = << >> THEN << >>
    ELSE [name \in {n \in DOMAIN scopes[1] : scopes[1][n].is_exported} |->
              scopes[1][name].value]

scope_depth(scopes) == IF Len(scopes) >= 1 THEN Len(scopes) - 1 ELSE 0

\* a copy that starts from an empty environment
Environment_clone_empty(scopes) == Environment_new

\* #[derive(Clone)]: the copy holds the same scopes, by value
Environment_clone(scopes) == [i \in DOMAIN scopes |-> scopes[i]]

Range(f) == {f[i] : i \in DOMAIN f}

\* ------------------------------------------------------- HandleRegistry
Without(f, id) == [i \in (DOMAIN f) \ {id} |-> f[i]]

HandleRegistry_new == [handles |-> << >>, next_id |-> 1]

\* a registry that hands out the first id not in use
add_reuse(reg, handle_type) ==
    LET id == CHOOSE i \in 1..(Cardinality(DOMAIN reg.handles) + 1) :
                  i \notin DOMAIN reg.handles IN
    [reg |-> [handles |-> (id :> handle_type) @@ reg.handles,
              next_id |-> reg.next_id + 1],
     id |-> id]

add(reg, handle_type) ==
    [reg |-> [handles |-> (reg.next_id :> handle_type) @@ reg.handles,
              next_id |-> reg.next_id + 1],
     id |-> reg.next_id]

\* a remove that reports success whatever it found
remove_always_true(reg, id) ==
    [reg |-> [reg EXCEPT !.handles = Without(reg.handles, id)],
     existed |-> TRUE]

remove(reg, id) ==
    [reg |-> [reg EXCEPT !.handles = Without(reg.handles, id)],
     existed |-> id \in DOMAIN reg.handles]

\* Option<&Handle> as a sequence of length 0 or 1
get(reg, id) == IF id \in DOMAIN reg.handles THEN <<reg.handles[id]>> ELSE << >>

count(reg) == Cardinality(DOMAIN reg.handles)

NoOp == [op |-> "none", id |-> 0, result |-> FALSE, before |-> HandleRegistry_new,
         liveBefore |-> {}]

\* ------------------------------------------------------------- Runtime
\* Runtime::new: a registry of its own and callback channels of its own
Runtime_new == [handles |-> HandleRegistry_new, callbackQ |-> << >>]

\* history kept beside the registry operations of the runtime
Registered(r) ==
    /\ registry' = r.reg
    /\ live' = live \cup {r.id}
    /\ issued' = Append(issued, r.id)
    /\ lastOp' = lastOp

Removed(id) ==
    /\ registry' = remove(registry, id).reg
    /\ live' = live \ {id}
    /\ UNCHANGED <<issued, lastOp>>

unregister_handle(id) == Removed(id)

active_handle_count == count(registry)

is_shutdown_signaled == shutdown

\* Option<CallbackRequest> as a sequence of length 0 or 1
run_event_loop_tick == IF callbackQ = << >> THEN << >> ELSE <<Head(callbackQ)>>

get_web_callback == IF webQ = << >> THEN << >> ELSE <<Head(webQ)>>

\* the process is alive: the tokio runtime has not been dropped
Alive == pc # "done"

NoCb == [type |-> "none", body |-> "none"]
NoReq == [chan |-> 0, srv |-> 0, cb |-> "none"]
NoReply == [tx |-> "none", sends |-> 0, value |-> "none", rx |-> 0]

\* ---------------------------------------------------------------- timers
\* timer_timeout / timer_interval up to the spawn of the task
timer_register(type, body) ==
    LET r == add(registry, [type |-> type, cancel_tx |-> TRUE]) IN
    /\ registry.next_id <= MaxHandles
    /\ Registered(r)
    /\ task' = [task EXCEPT ![r.id] = "armed"]
    /\ cancelRx' = [cancelRx EXCEPT ![r.id] = "open"]
    /\ cb' = [cb EXCEPT ![r.id] = [type |-> type, body |-> body]]

\* a timer.clear that cancels the task and leaves the handle in the registry
timer_clear_no_remove(id) ==
    IF get(registry, id) # << >>
    THEN /\ cancelRx' = [cancelRx EXCEPT ![id] =
                IF registry.handles[id].type \in TimerTypes
                THEN (IF registry.handles[id].cancel_tx THEN "sent" ELSE @)
                ELSE "closed"]
         /\ UNCHANGED <<registry, live, issued, lastOp>>
    ELSE UNCHANGED <<registry, live, issued, lastOp, cancelRx>>

\* timer_clear: the handle's cancel sender is taken and used; a handle of another
\* type is only removed, which drops its shutdown sender
timer_clear(id) ==
    IF get(registry, id) # << >>
    THEN /\ cancelRx' = [cancelRx EXCEPT ![id] =
                IF registry.handles[id].type \in TimerTypes
                THEN (IF registry.handles[id].cancel_tx THEN "sent" ELSE @)
                ELSE "closed"]
         /\ Removed(id)
    ELSE UNCHANGED <<registry, live, issued, lastOp, cancelRx>>

\* the value timer_clear returns: Ok(Value::Boolean(..))
timer_clear_result(id) == get(registry, id) # << >>

\* the sleep branch of the timeout task's select
TimeoutFire(h) ==
    /\ Alive /\ task[h] = "armed" /\ cb[h].type = "Timeout"
    /\ Len(callbackQ) < MaxQueue
    /\ callbackQ' = Append(callbackQ, [h |-> h, cb |-> cb[h].body])
    /\ task' = [task EXCEPT ![h] = "unreg"]
    /\ UNCHANGED <<registry, histVars, nops, shutdown, webVars, cancelRx, cb, stack, pc,
                   exitBy, lost>>
    /\ UNCHANGED restVars

\* the tick branch of the interval task's select
IntervalTick(h) ==
    /\ Alive /\ task[h] = "armed" /\ cb[h].type = "Interval"
    /\ Len(callbackQ) < MaxQueue
    /\ callbackQ' = Append(callbackQ, [h |-> h, cb |-> cb[h].body])
    /\ UNCHANGED <<registry, histVars, nops, shutdown, webVars, task, cancelRx, cb, stack,
                   pc, exitBy, lost>>
    /\ UNCHANGED restVars

\* the cancel branch of either select
TimerCancelled(h) ==
    /\ Alive /\ task[h] = "armed" /\ cb[h].type \in TimerTypes
    /\ cancelRx[h] \in {"sent", "closed"}
    /\ task' = [task EXCEPT ![h] = "unreg"]
    /\ UNCHANGED <<registry, histVars, nops, shutdown, callbackQ, webVars, cancelRx, cb,
                   stack, pc, exitBy, lost>>
    /\ UNCHANGED restVars

\* runtime.unregister_handle(handle_id) at the end of a timer or server task
TaskUnregister(h) ==
    /\ Alive /\ task[h] = "unreg"
    /\ unregister_handle(h)
    /\ task' = [task EXCEPT ![h] = "done"]
    /\ UNCHANGED <<nops, shutdown, callbackQ, webVars, cancelRx, cb, stack, pc, exitBy,
                   lost>>
    /\ UNCHANGED restVars

\* ------------------------------------------------------------ evaluators
\* execute_function on a Value::Function: a new scope with the parameters bound to
\* the arguments, pairwise
RECURSIVE bind_parameters(_, _, _)
bind_parameters(scopes, params, args) ==
    IF params = << >> \/ args = << >> THEN scopes
    ELSE bind_parameters(define(scopes, Head(params), Head(args), TRUE),
                         Tail(params), Tail(args))

enter_function(scopes, params, args) == bind_parameters(push_scope(scopes), params, args)

\* a timer callback is called without arguments; a web handler with the request and
\* the response prototype
TimerArgs == << >>
HandlerParams == <<"req", "res">>
HandlerArgs == <<V_Relic(<<"u">> :> V_String(<<"/">>)), V_Relic(<< >>)>>

\* the clone of the main interpreter made for a web handler: its environment by
\* value (module cache and runtime are shared)
Interpreter_clone == Environment_clone(env[0])

\* evaluator e is executing: the main interpreter inside interpreter.execute or the
\* timer drain, a clone inside its spawned handler task
Running(e) ==
    IF e = 0 THEN pc \in {"toplevel", "drain"} ELSE Alive /\ hs[e] = "running"

Top(e) == stack[e][Len(stack[e])]

Pop(e) == SubSeq(stack[e], 1, Len(stack[e]) - 1)

\* state of handler task e once its execute_function call has returned
AfterReturn(e) ==
    IF e # 0 /\ Len(stack[e]) = 1
    THEN [hs EXCEPT ![e] = IF Top(e).cb = "err" THEN "reply_err" ELSE "reply_ok"]
    ELSE hs

\* execute_function returns (or raises): the innermost callback is over
CallbackReturn(e) ==
    /\ Running(e) /\ stack[e] # << >>
    /\ Top(e).cb \in {"plain", "wait", "err"}
    /\ stack' = [stack EXCEPT ![e] = Pop(e)]
    /\ hs' = AfterReturn(e)
    /\ UNCHANGED <<registry, histVars, nops, shutdown, callbackQ, webQ, permits, task,
                   cancelRx, cb, acc, nextChan, reply, pc, loop_batch, cur, exitBy, lost>>
    /\ env' = [env EXCEPT ![e] = IF Top(e).cb = "err" THEN @ ELSE pop_scope(@)]
    /\ UNCHANGED <<clearLog, extractVars, resp, envOp, importVars, stmtVars, rtVars, pkgVars>>

\* a callback whose body calls timer.clear(id) and returns
CallbackClear(e, id) ==
    /\ Running(e) /\ stack[e] # << >>
    /\ Top(e).cb = "clear"
    /\ timer_clear(id)
    /\ stack' = [stack EXCEPT ![e] = Pop(e)]
    /\ hs' = AfterReturn(e)
    /\ UNCHANGED <<nops, shutdown, callbackQ, webQ, permits, task, cb, acc, nextChan,
                   reply, pc, loop_batch, cur, exitBy, lost>>
    /\ env' = [env EXCEPT ![e] = pop_scope(@)]
    /\ UNCHANGED <<clearLog, extractVars, resp, envOp, importVars, stmtVars, rtVars, pkgVars>>

\* Statement::Wait: the evaluator that executes a wait statement takes the pending
\* timer callbacks and executes them
WaitDrain(e) ==
    /\ Running(e) /\ stack[e] # << >>
    /\ Top(e).cb = "wait"
    /\ Len(stack[e]) < MaxDepth
    /\ run_event_loop_tick # << >>
    /\ stack' = [stack EXCEPT ![e] = Append(@, run_event_loop_tick[1])]
    /\ callbackQ' = Tail(callbackQ)
    /\ UNCHANGED <<registry, histVars, nops, shutdown, webVars, task, cancelRx, cb, pc,
                   exitBy, lost>>
    /\ env' = [env EXCEPT ![e] = enter_function(@, << >>, TimerArgs)]
    /\ UNCHANGED <<clearLog, extractVars, resp, envOp, importVars, stmtVars, rtVars, pkgVars>>

\* ------------------------------------------------------------- FlowError
ErrorKinds == {"Type", "Runtime", "Undefined", "DivisionByZero", "Rift", "Glitch",
               "VoidTear", "Spirit", "Panic", "Break", "Continue"}

\* a FlowError: its variant and its message, the message word by word
\* an error of a kind with its message and the line it was raised at; the column
\* is 0 in every error the interpreter raises
FlowErrorAt(kind, message, line) == [kind |-> kind, message |-> message, line |-> line]
\* the errors raised without a position, `at 0:0`
FlowError(kind, message) == FlowErrorAt(kind, message, 0)

\* the word the Display of an error starts with (the symbol before it left out)
DisplayName(kind) ==
    CASE kind = "Syntax" -> "Syntax Error"
      [] kind = "Type" -> "Type Error"
      [] kind = "Runtime" -> "Runtime Error"
      [] kind = "Undefined" -> "Undefined Error"
      [] kind = "OutOfRange" -> "Out of Range Error"
      [] kind = "DivisionByZero" -> "Division by Zero"
      [] kind = "Rift" -> "RIFT"
      [] kind = "Glitch" -> "GLITCH"
      [] kind = "VoidTear" -> "VOID TEAR"
      [] kind = "Spirit" -> "SPIRIT"
      [] kind = "Panic" -> "PANIC"
      [] kind = "Wound" -> "WOUND"
      [] OTHER -> kind

\* impl Display for FlowError: err.to_string()
display(err) ==
    <<DisplayName(err.kind), " at ">> \o Digits(err.line) \o <<":">> \o Digits(0)
    \o (IF err.kind \in {"Break", "Continue"} THEN << >> ELSE <<" - ">> \o err.message)

\* FlowError::error_type_name
error_type_name(err) == err.kind

Mentions(err, word) == \E i \in DOMAIN err.message : err.message[i] = word

\* the errors the statements of the model raise
undefined_error(name) ==
    FlowError("Undefined", <<"You", "speak", "the", "name", name>>)
cannot_assign_error(name) ==
    FlowError("Runtime", <<"Cannot", "assign", "to", name, "Variable", "may", "not",
                           "exist", "or", "is", "sealed">>)
division_by_zero == FlowError("DivisionByZero", <<"STOP!">>)
break_seal == FlowError("Break", << >>)
fracture_seal == FlowError("Continue", << >>)

\* ------------------------------------------------- statements and expressions
\* Option<T> is a sequence of length 0 or 1
\* a number literal, as its integer part and one decimal of its fraction
E_Decimal(int, frac) == [type |-> "Number", n |-> int, frac |-> frac]
E_Number(n) == E_Decimal(n, 0)
E_Boolean(b) == [type |-> "Boolean", b |-> b]
E_Identifier(name) == [type |-> "Identifier", name |-> name]
E_Binary(left, operator, right) ==
    [type |-> "Binary", left |-> left, operator |-> operator, right |-> right]
E_Call(callee, arguments) == [type |-> "Call", callee |-> callee, arguments |-> arguments]
E_Array(elements) == [type |-> "Array", elements |-> elements]
E_MethodCall(object, method, arguments) ==
    [type |-> "MethodCall", object |-> object, method |-> method, arguments |-> arguments]

S_Let(name, value, line) == [type |-> "Let", name |-> name, value |-> value, line |-> line]
S_Seal(name, value, line) == [type |-> "Seal", name |-> name, value |-> value, line |-> line]
S_Assignment(name, value, line) ==
    [type |-> "Assignment", name |-> name, value |-> value, line |-> line]
S_FunctionDecl(name, params, body, line) ==
    [type |-> "FunctionDecl", name |-> name, params |-> params, body |-> body, line |-> line]
S_Return(value, line) == [type |-> "Return", value |-> value, line |-> line]
S_ShatterGrandSeal(value, line) == [type |-> "ShatterGrandSeal", value |-> value, line |-> line]
S_Stance(condition, then_branch, abandon_branch, line) ==
    [type |-> "Stance", condition |-> condition, then_branch |-> then_branch,
     shift_branches |-> << >>, abandon_branch |-> abandon_branch, line |-> line]
S_Aura(value, cases, otherwise, line) ==
    [type |-> "Aura", value |-> value, cases |-> cases, otherwise |-> otherwise,
     line |-> line]
S_Phase(variable, from, to, body, line) ==
    [type |-> "Phase", variable |-> variable, from |-> from, to |-> to, body |-> body,
     line |-> line]
S_Expression(expr, line) == [type |-> "Expression", expr |-> expr, line |-> line]
RescueClause(error_type, binding, retry_count, body) ==
    [error_type |-> error_type, binding |-> binding, retry_count |-> retry_count,
     body |-> body]
S_Attempt(body, rescue_clauses, finally_block, line) ==
    [type |-> "Attempt", body |-> body, rescue_clauses |-> rescue_clauses,
     finally_block |-> finally_block, line |-> line]
S_Panic(line) == [type |-> "Panic", line |-> line]
E_String(str) == [type |-> "String", s |-> str]
S_RuptureWith(error_type, message, line) ==
    [type |-> "Rupture", error_type |-> error_type, message |-> message, line |-> line]
S_Rupture(error_type, line) == S_RuptureWith(error_type, E_String(<<"rupture">>), line)
S_Ward(body, line) == [type |-> "Ward", body |-> body, line |-> line]
S_BreakSeal(line) == [type |-> "BreakSeal", line |-> line]
S_FractureSeal(line) == [type |-> "FractureSeal", line |-> line]

V_Function(params, body) == [tag |-> "Function", params |-> params, body |-> body]

\* Value::is_truthy
is_truthy(v) ==
    CASE v.tag = "Boolean" -> v.b
      [] v.tag = "Null" -> FALSE
      [] v.tag = "Number" -> v.int # 0 \/ v.frac # 0
      [] v.tag = "String" -> v.s # << >>
      [] v.tag = "Array" -> v.arr # << >>
      [] v.tag = "Relic" -> DOMAIN v.map # {}
      [] v.tag = "Function" -> TRUE
      [] v.tag = "Handle" -> v.id > 0

\* Interpreter::values_equal
values_equal(a, b) ==
    /\ a.tag = b.tag
    /\ a.tag \in {"Number", "String", "Boolean", "Null"}
    /\ a = b

\* Result<Value, FlowError> and Result<Option<Value>, FlowError>
Ok(v) == [tag |-> "Ok", value |-> v]
Ok_None == [tag |-> "None"]
Ok_Some(v) == [tag |-> "Some", value |-> v]
Err(e) == [tag |-> "Err", err |-> e]
IsErr(r) == r.tag = "Err"

\* numbers that are not negative, counted in tenths
Tenths(int, frac) == int * 10 + frac
Quotient(a, b) == (a * 10) \div b

\* the Divide arm of apply_binary_op; the quotient keeps one decimal
divide_unchecked(left, right) ==
    LET a == Tenths(left.int, left.frac)
        b == Tenths(right.int, right.frac) IN
    IF b = 0 THEN Ok(V_Number(0, 0))
    ELSE Ok(V_Number(Quotient(a, b) \div 10, Quotient(a, b) % 10))

divide(left, right) ==
    LET a == Tenths(left.int, left.frac)
        b == Tenths(right.int, right.frac) IN
    IF b = 0 THEN Err(division_by_zero)
    ELSE Ok(V_Number(Quotient(a, b) \div 10, Quotient(a, b) % 10))

\* Interpreter::apply_binary_op on the operators of the model
apply_binary_op(left, op, right) ==
    CASE left.tag = "Number" /\ right.tag = "Number" /\ op = "Add" ->
            LET sum == Tenths(left.int, left.frac) + Tenths(right.int, right.frac) IN
            Ok(V_Number(sum \div 10, sum % 10))
      [] left.tag = "Number" /\ right.tag = "Number" /\ op = "Divide" ->
            divide(left, right)
      [] left.tag = "Number" /\ right.tag = "Number" /\ op = "Less" ->
            Ok(V_Boolean(Tenths(left.int, left.frac) < Tenths(right.int, right.frac)))
      [] op = "IsEqual" -> Ok(V_Boolean(values_equal(left, right)))
      [] op = "Both" -> Ok(V_Boolean(is_truthy(left) /\ is_truthy(right)))
      [] op = "Either" -> Ok(V_Boolean(is_truthy(left) \/ is_truthy(right)))
      [] OTHER -> Err(FlowError("Type", <<"Cannot", "apply", op>>))

\* the interpreter at work: its environment, and as history the lines of the
\* statements it executed and the errors a ward printed
Interp(scopes) == [env |-> scopes, trace |-> << >>, absorbed |-> << >>]

NoResult == [tag |-> "none"]
NoCall == [made |-> FALSE]

\* ---------------------------------------------------------------- optimizer
\* ConstantFolder::try_fold_binary: Option<Expression>
try_fold_binary(left, op, right) ==
    CASE left.type = "Number" /\ right.type = "Number" ->
            LET a == Tenths(left.n, left.frac)
                b == Tenths(right.n, right.frac) IN
            CASE op = "Add" -> <<E_Decimal((a + b) \div 10, (a + b) % 10)>>
              [] op = "Divide" ->
                    IF b = 0 THEN << >>
                    ELSE <<E_Decimal(Quotient(a, b) \div 10, Quotient(a, b) % 10)>>
              [] op = "Less" -> <<E_Boolean(a < b)>>
              [] op = "IsEqual" -> <<E_Boolean(a = b)>>
              [] OTHER -> << >>
      [] left.type = "Boolean" /\ right.type = "Boolean" ->
            CASE op = "Both" -> <<E_Boolean(left.b /\ right.b)>>
              [] op = "Either" -> <<E_Boolean(left.b \/ right.b)>>
              [] op = "IsEqual" -> <<E_Boolean(left.b = right.b)>>
              [] OTHER -> << >>
      [] OTHER -> << >>

RECURSIVE fold_expression(_), fold_statement(_)

\* ConstantFolder::fold_expression
fold_expression(expr) ==
    CASE expr.type = "Binary" ->
            LET left == fold_expression(expr.left)
                right == fold_expression(expr.right)
                result == try_fold_binary(left, expr.operator, right) IN
            IF result # << >> THEN result[1]
            ELSE [expr EXCEPT !.left = left, !.right = right]
      [] expr.type = "Call" ->
            [expr EXCEPT !.callee = fold_expression(@),
                         !.arguments = [i \in DOMAIN @ |-> fold_expression(@[i])]]
      [] expr.type = "Array" ->
            [expr EXCEPT !.elements = [i \in DOMAIN @ |-> fold_expression(@[i])]]
      [] expr.type = "MethodCall" ->
            [expr EXCEPT !.object = fold_expression(@),
                         !.arguments = [i \in DOMAIN @ |-> fold_expression(@[i])]]
      [] OTHER -> expr

fold_block(stmts) == [i \in DOMAIN stmts |-> fold_statement(stmts[i])]

\* ConstantFolder::fold_statement
fold_statement(stmt) ==
    CASE stmt.type \in {"Let", "Seal", "Assignment"} ->
            [stmt EXCEPT !.value = fold_expression(@)]
      [] stmt.type = "FunctionDecl" -> [stmt EXCEPT !.body = fold_block(@)]
      [] stmt.type = "Return" ->
            [stmt EXCEPT !.value = [i \in DOMAIN @ |-> fold_expression(@[i])]]
      [] stmt.type = "Expression" -> [stmt EXCEPT !.expr = fold_expression(@)]
      [] stmt.type = "Stance" ->
            [stmt EXCEPT !.condition = fold_expression(@),
                         !.then_branch = fold_block(@),
                         !.abandon_branch = [i \in DOMAIN @ |-> fold_block(@[i])]]
      [] stmt.type = "Aura" ->
            [stmt EXCEPT !.value = fold_expression(@),
                         !.cases = [i \in DOMAIN @ |->
                                       <<fold_expression(@[i][1]), fold_block(@[i][2])>>],
                         !.otherwise = [i \in DOMAIN @ |-> fold_block(@[i])]]
      [] stmt.type = "Phase" ->
            [stmt EXCEPT !.from = fold_expression(@), !.to = fold_expression(@),
                         !.body = fold_block(@)]
      [] stmt.type = "Attempt" ->
            [stmt EXCEPT !.body = fold_block(@),
                         !.rescue_clauses = [i \in DOMAIN @ |->
                                                [@[i] EXCEPT !.body = fold_block(@)]],
                         !.finally_block = [i \in DOMAIN @ |-> fold_block(@[i])]]
      [] stmt.type = "Ward" -> [stmt EXCEPT !.body = fold_block(@)]
      [] OTHER -> stmt

\* ConstantFolder::fold
fold(statements) == fold_block(statements)

\* the program before and after Optimizer::optimize
NotOptimized == [optimized |-> FALSE, statements |-> << >>]
Optimized(statements) == [optimized |-> TRUE, statements |-> statements]

Out(s, r) == [s |-> s, r |-> r]

RECURSIVE evaluate_expression(_, _), evaluate_arguments(_, _, _, _),
          execute_statement(_, _), walk(_, _, _, _, _), phase_count(_, _, _, _),
          retry(_, _, _), retry_propagates(_, _, _), aura_cases(_, _, _, _),
          each_item(_, _, _, _, _, _)

Reverse(arr) == [i \in DOMAIN arr |-> arr[Len(arr) + 1 - i]]

runtime_error(words) == FlowError("Runtime", words)

\* the callback of constellation, filter and reduce called on one item: a scope is
\* pushed, the first parameters are bound, the body runs up to its return
call_callback(callback, bound, s) ==
    LET entered == [s EXCEPT !.env = bind_parameters(push_scope(@), callback.params, bound)]
        b == walk(callback.body, 1, entered, TRUE, Ok_None) IN
    IF IsErr(b.r) THEN b
    ELSE Out([b.s EXCEPT !.env = pop_scope(@)],
             Ok(IF b.r.tag = "Some" THEN b.r.value ELSE V_Null))

\* `for item in arr.iter()` of constellation, filter and reduce
each_item(method, callback, arr, i, s, accumulator) ==
    IF i > Len(arr)
    THEN Out(s, Ok(IF method = "reduce" THEN accumulator ELSE V_Array(accumulator)))
    ELSE IF callback.tag # "Function"
    THEN Out(s, Err(FlowError("Type", <<method, "requires", "a", "Spell">>)))
    ELSE IF Len(callback.params) < (IF method = "reduce" THEN 2 ELSE 1)
    THEN Out(s, Err(runtime_error(<<method, "Spell", "must", "accept", "parameters">>)))
    ELSE LET c == call_callback(callback,
                                IF method = "reduce" THEN <<accumulator, arr[i]>> ELSE <<arr[i]>>, s)
         IN  IF IsErr(c.r) THEN c
             ELSE each_item(method, callback, arr, i + 1, c.s,
                            CASE method = "constellation" -> Append(accumulator, c.r.value)
                              [] method = "filter" ->
                                    IF is_truthy(c.r.value) THEN Append(accumulator, arr[i]) ELSE accumulator
                              [] method = "reduce" -> c.r.value)

\* the methods of an Array that take no callback: the result is built from a copy
array_method(arr, method, arg_values) ==
    CASE method = "len" ->
            IF arg_values # << >> THEN Err(runtime_error(<<"len", "takes", "no", "arguments">>))
            ELSE Ok(V_Number(Len(arr), 0))
      [] method = "push" ->
            IF Len(arg_values) # 1 THEN Err(runtime_error(<<"push", "takes", "1", "argument">>))
            ELSE Ok(V_Array(Append(arr, arg_values[1])))
      [] method = "pop" ->
            IF arg_values # << >> THEN Err(runtime_error(<<"pop", "takes", "no", "arguments">>))
            ELSE IF arr = << >> THEN Err(runtime_error(<<"Cannot", "pop", "from", "empty">>))
            ELSE Ok(arr[Len(arr)])
      [] method = "slice" ->
            IF Len(arg_values) # 2
            THEN Err(runtime_error(<<"slice", "takes", "2", "arguments">>))
            ELSE IF arg_values[1].tag # "Number" \/ arg_values[2].tag # "Number"
            THEN Err(FlowError("Type", <<"slice", "index", "must", "be", "a", "number">>))
            ELSE LET start == arg_values[1].int
                     end == arg_values[2].int IN
                 IF start > Len(arr) \/ end > Len(arr) \/ start > end
                 THEN Err(runtime_error(<<"slice", "indices", "out", "of", "bounds">>))
                 ELSE Ok(V_Array(SubSeq(arr, start + 1, end)))
      [] method = "concat" ->
            IF Len(arg_values) # 1
            THEN Err(runtime_error(<<"concat", "takes", "1", "argument">>))
            ELSE IF arg_values[1].tag # "Array"
            THEN Err(FlowError("Type", <<"concat", "requires", "a", "Constellation">>))
            ELSE Ok(V_Array(arr \o arg_values[1].arr))
      [] method = "reverse" ->
            IF arg_values # << >>
            THEN Err(runtime_error(<<"reverse", "takes", "no", "arguments">>))
            ELSE Ok(V_Array(Reverse(arr)))
      [] OTHER -> Err(runtime_error(<<"Unknown", "method", method>>))

\* Expression::MethodCall on an Array, object and arguments evaluated: the
\* interpreter after the call and the value of the call
method_call_in_place(expr, arr, arg_values, s) ==
    LET r == array_method(arr, expr.method, arg_values) IN
    IF ~IsErr(r) /\ r.value.tag = "Array" /\ expr.object.type = "Identifier"
    THEN Out([s EXCEPT !.env = Environment_set(@, expr.object.name, r.value).scopes], r)
    ELSE Out(s, r)

method_call(expr, arr, arg_values, s) ==
    IF expr.method \in {"constellation", "filter"}
    THEN IF Len(arg_values) # 1
         THEN Out(s, Err(runtime_error(<<expr.method, "takes", "1", "argument">>)))
         ELSE each_item(expr.method, arg_values[1], arr, 1, s, << >>)
    ELSE IF expr.method = "reduce"
    THEN IF Len(arg_values) # 2
         THEN Out(s, Err(runtime_error(<<"reduce", "takes", "2", "arguments">>)))
         ELSE each_item("reduce", arg_values[1], arr, 1, s, arg_values[2])
    ELSE Out(s, array_method(arr, expr.method, arg_values))

\* the walk over a body once statement i gave x: it ends there or goes on
after_statement(body, i, stop_on_some, x) ==
    IF IsErr(x.r) \/ (stop_on_some /\ x.r.tag = "Some") THEN x
    ELSE walk(body, i + 1, x.s, stop_on_some, x.r)

\* `for stmt in body` of execute_statement: an error ends the walk, and so does a
\* returned value where the loop looks at it; the value of the last statement else
walk(body, i, s, stop_on_some, last) ==
    IF i > Len(body) THEN Out(s, last)
    ELSE after_statement(body, i, stop_on_some, execute_statement(body[i], s))

\* the arguments of a call, left to right
evaluate_arguments(arguments, i, s, arg_values) ==
    IF i > Len(arguments) THEN Out(s, Ok(arg_values))
    ELSE LET x == evaluate_expression(arguments[i], s) IN
         IF IsErr(x.r) THEN x
         ELSE evaluate_arguments(arguments, i + 1, x.s, Append(arg_values, x.r.value))

\* Interpreter::evaluate_expression
evaluate_expression(expr, s) ==
    CASE expr.type = "Number" -> Out(s, Ok(V_Number(expr.n, expr.frac)))
      [] expr.type = "String" -> Out(s, Ok(V_String(expr.s)))
      [] expr.type = "Boolean" -> Out(s, Ok(V_Boolean(expr.b)))
      [] expr.type = "Identifier" ->
            LET v == Environment_get(s.env, expr.name) IN
            IF v = << >> THEN Out(s, Err(undefined_error(expr.name)))
            ELSE Out(s, Ok(v[1]))
      [] expr.type = "Binary" ->
            LET l == evaluate_expression(expr.left, s) IN
            IF IsErr(l.r) THEN l
            ELSE LET r == evaluate_expression(expr.right, l.s) IN
                 IF IsErr(r.r) THEN r
                 ELSE Out(r.s, apply_binary_op(l.r.value, expr.operator, r.r.value))
      [] expr.type = "Array" ->
            LET a == evaluate_arguments(expr.elements, 1, s, << >>) IN
            IF IsErr(a.r) THEN a ELSE Out(a.s, Ok(V_Array(a.r.value)))
      [] expr.type = "MethodCall" ->
            LET o == evaluate_expression(expr.object, s) IN
            IF IsErr(o.r) THEN o
            ELSE LET a == evaluate_arguments(expr.arguments, 1, o.s, << >>) IN
                 IF IsErr(a.r) THEN a
                 ELSE IF o.r.value.tag # "Array"
                 THEN Out(a.s, Err(runtime_error(<<"Unknown", "method", expr.method>>)))
                 ELSE method_call(expr, o.r.value.arr, a.r.value, a.s)
      [] expr.type = "Call" ->
            LET a == evaluate_arguments(expr.arguments, 1, s, << >>) IN
            IF IsErr(a.r) THEN a
            ELSE LET f == evaluate_expression(expr.callee, a.s) IN
                 IF IsErr(f.r) THEN f
                 ELSE IF f.r.value.tag # "Function"
                 THEN Out(f.s, Err(FlowError("Type", <<"Can", "only", "call", "Spells!">>)))
                 ELSE IF Len(f.r.value.params) # Len(a.r.value)
                 THEN Out(f.s, Err(FlowError("Runtime", <<"Spell", "expects", "essences">>)))
                 ELSE LET entered == [f.s EXCEPT !.env = bind_parameters(
                                          push_scope(@), f.r.value.params, a.r.value)]
                          b == walk(f.r.value.body, 1, entered, TRUE, Ok_None)
                      IN  IF IsErr(b.r) THEN b
                          ELSE Out([b.s EXCEPT !.env = pop_scope(@)],
                                   Ok(IF b.r.tag = "Some" THEN b.r.value ELSE V_Null))

\* `for i in start..=end` of PhaseKind::Count
phase_count(stmt, i, end, s) ==
    IF i > end THEN Out(s, Ok_None)
    ELSE LET entered == [s EXCEPT !.env = define(push_scope(@), stmt.variable,
                                                  V_Number(i, 0), FALSE)]
             b == walk(stmt.body, 1, entered, TRUE, Ok_None)
             left == [b.s EXCEPT !.env = pop_scope(@)]
         IN  IF b.r.tag = "Some" THEN Out(left, b.r)
             ELSE IF IsErr(b.r) /\ b.r.err.kind = "Break" THEN Out(left, Ok_None)
             ELSE IF IsErr(b.r) /\ b.r.err.kind # "Continue" THEN Out(left, b.r)
             ELSE phase_count(stmt, i + 1, end, left)

\* a retry loop that raises once the retries are used up
retry_propagates(stmt, rescue, at) ==
    LET rb == walk(rescue.body, 1, at.s, FALSE, Ok_None) IN
    IF IsErr(rb.r) THEN rb
    ELSE IF at.attempts + 1 >= rescue.retry_count[1]
    THEN Out(rb.s, Err(runtime_error(<<"retries", "exhausted">>)))
    ELSE LET again == walk(stmt.body, 1, rb.s, FALSE, Ok_None) IN
         IF ~IsErr(again.r) THEN Out(again.s, Ok_None)
         ELSE retry_propagates(stmt, rescue, [s |-> again.s, attempts |-> at.attempts + 1])

\* the retry loop of a rescue clause, `attempts` rescues done so far
retry(stmt, rescue, at) ==
    LET rb == walk(rescue.body, 1, at.s, FALSE, Ok_None) IN
    IF IsErr(rb.r) THEN rb
    ELSE IF at.attempts + 1 >= rescue.retry_count[1] THEN Out(rb.s, Ok_None)
    ELSE LET again == walk(stmt.body, 1, rb.s, FALSE, Ok_None) IN
         IF ~IsErr(again.r) THEN Out(again.s, Ok_None)
         ELSE retry(stmt, rescue, [s |-> again.s, attempts |-> at.attempts + 1])

\* the cases of an Aura, top to bottom
aura_cases(stmt, i, aura_value, s) ==
    IF i > Len(stmt.cases)
    THEN IF stmt.otherwise = << >> THEN Out(s, Ok_None)
         ELSE LET b == walk(stmt.otherwise[1], 1, [s EXCEPT !.env = push_scope(@)],
                            TRUE, Ok_None) IN
              IF IsErr(b.r) THEN b ELSE Out([b.s EXCEPT !.env = pop_scope(@)], b.r)
    ELSE LET c == evaluate_expression(stmt.cases[i][1], s) IN
         IF IsErr(c.r) THEN c
         ELSE IF values_equal(aura_value, c.r.value)
         THEN LET b == walk(stmt.cases[i][2], 1, [c.s EXCEPT !.env = push_scope(@)],
                            TRUE, Ok_None) IN
              IF IsErr(b.r) THEN b ELSE Out([b.s EXCEPT !.env = pop_scope(@)], b.r)
         ELSE aura_cases(stmt, i + 1, aura_value, c.s)

\* Statement::Ward, after the walk over its body: an error is printed and dropped
ward_propagates(b) == b

ward_absorbs(b) ==
    IF IsErr(b.r) THEN Out([b.s EXCEPT !.absorbed = Append(@, b.r.err)], Ok_None) ELSE b

\* the first rescue clause that matches the error, 0 when none does
first_match_last(rescue_clauses, error_type) ==
    LET m == {i \in DOMAIN rescue_clauses :
                  rescue_clauses[i].error_type \in {<< >>, <<error_type>>}} IN
    IF m = {} THEN 0 ELSE CHOOSE i \in m : \A j \in m : j <= i

first_match(rescue_clauses, error_type) ==
    LET m == {i \in DOMAIN rescue_clauses :
                  rescue_clauses[i].error_type \in {<< >>, <<error_type>>}} IN
    IF m = {} THEN 0 ELSE CHOOSE i \in m : \A j \in m : i <= j

\* the value a definition or a return evaluates, Null when there is none
value_of(value, s) ==
    IF value = << >> THEN Out(s, Ok(V_Null)) ELSE evaluate_expression(value[1], s)

\* Interpreter::execute_statement
execute_statement(stmt, s0) ==
    LET s == [s0 EXCEPT !.trace = Append(@, stmt.line)] IN
    CASE stmt.type \in {"Let", "Seal"} ->
            LET v == evaluate_expression(stmt.value, s) IN
            IF IsErr(v.r) THEN v
            ELSE Out([v.s EXCEPT !.env = define_with_export(@, stmt.name, v.r.value,
                                             stmt.type = "Let", FALSE)], Ok_None)
      [] stmt.type = "Assignment" ->
            LET v == evaluate_expression(stmt.value, s) IN
            IF IsErr(v.r) THEN v
            ELSE LET set == Environment_set(v.s.env, stmt.name, v.r.value) IN
                 IF set.result = "ok" THEN Out([v.s EXCEPT !.env = set.scopes], Ok_None)
                 ELSE Out(v.s, Err(cannot_assign_error(stmt.name)))
      [] stmt.type = "FunctionDecl" ->
            Out([s EXCEPT !.env = define_with_export(@, stmt.name,
                                      V_Function(stmt.params, stmt.body), FALSE, FALSE)],
                Ok_None)
      [] stmt.type \in {"Return", "ShatterGrandSeal"} ->
            LET v == value_of(stmt.value, s) IN
            IF IsErr(v.r) THEN v ELSE Out(v.s, Ok_Some(v.r.value))
      [] stmt.type = "Stance" ->
            LET c == evaluate_expression(stmt.condition, s) IN
            IF IsErr(c.r) THEN c
            ELSE LET branch == IF is_truthy(c.r.value) THEN <<stmt.then_branch>>
                               ELSE stmt.abandon_branch IN
                 IF branch = << >> THEN Out(c.s, Ok_None)
                 ELSE LET b == walk(branch[1], 1, [c.s EXCEPT !.env = push_scope(@)],
                                    TRUE, Ok_None) IN
                      IF IsErr(b.r) THEN b
                      ELSE Out([b.s EXCEPT !.env = pop_scope(@)], b.r)
      [] stmt.type = "Aura" ->
            LET v == evaluate_expression(stmt.value, s) IN
            IF IsErr(v.r) THEN v ELSE aura_cases(stmt, 1, v.r.value, v.s)
      [] stmt.type = "Phase" ->
            LET from == evaluate_expression(stmt.from, s) IN
            IF IsErr(from.r) THEN from
            ELSE LET to == evaluate_expression(stmt.to, from.s) IN
                 IF IsErr(to.r) THEN to
                 ELSE IF from.r.value.tag # "Number" \/ to.r.value.tag # "Number"
                 THEN Out(to.s, Err(FlowError("Type", <<"Phase", "must", "be", "an",
                                                        "Ember!">>)))
                 ELSE phase_count(stmt, from.r.value.int, to.r.value.int, to.s)
      [] stmt.type = "Expression" ->
            LET v == evaluate_expression(stmt.expr, s) IN
            IF IsErr(v.r) THEN v ELSE Out(v.s, Ok_None)
      [] stmt.type = "Attempt" ->
            LET b == walk(stmt.body, 1, s, FALSE, Ok_None)
                m == IF IsErr(b.r)
                     THEN first_match(stmt.rescue_clauses, error_type_name(b.r.err))
                     ELSE 0
                bound ==
                    IF m # 0 /\ stmt.rescue_clauses[m].binding # << >>
                    THEN [b.s EXCEPT !.env = define(@, stmt.rescue_clauses[m].binding[1],
                                                    V_String(display(b.r.err)), TRUE)]
                    ELSE b.s
                rescued ==
                    IF ~IsErr(b.r) \/ m = 0 THEN b
                    ELSE IF stmt.rescue_clauses[m].retry_count # << >>
                    THEN retry(stmt, stmt.rescue_clauses[m], [s |-> bound, attempts |-> 0])
                    ELSE LET rb == walk(stmt.rescue_clauses[m].body, 1, bound, FALSE,
                                        Ok_None) IN
                         IF IsErr(rb.r) THEN rb ELSE Out(rb.s, Ok_None)
            IN  IF m # 0 /\ IsErr(rescued.r) THEN rescued
                ELSE IF stmt.finally_block = << >> THEN rescued
                ELSE LET f == walk(stmt.finally_block[1], 1, rescued.s, FALSE, Ok_None) IN
                     IF IsErr(f.r) THEN f ELSE Out(f.s, rescued.r)
      [] stmt.type = "Panic" -> Out(s, Err(FlowErrorAt("Panic", <<"panic">>, stmt.line)))
      [] stmt.type = "Rupture" ->
            LET msg_val == evaluate_expression(stmt.message, s) IN
            IF IsErr(msg_val.r) THEN msg_val
            ELSE IF stmt.error_type \in {"Rift", "Glitch", "VoidTear", "Spirit"}
            THEN Out(msg_val.s, Err(FlowErrorAt(stmt.error_type, to_string(msg_val.r.value),
                                                stmt.line)))
            ELSE Out(msg_val.s, Err(FlowErrorAt("Runtime", <<"Unknown", "error", "type">>,
                                                stmt.line)))
      [] stmt.type = "Ward" -> ward_absorbs(walk(stmt.body, 1, s, TRUE, Ok_None))
      [] stmt.type = "BreakSeal" -> Out(s, Err(break_seal))
      [] stmt.type = "FractureSeal" -> Out(s, Err(fracture_seal))

\* what execute_function does with the outcome of the walk over the body: an error
\* leaves at once; else the scope is popped and the value returned, or Null, is the
\* result
returned(b) ==
    IF IsErr(b.r) THEN b
    ELSE Out([b.s EXCEPT !.env = pop_scope(@)],
             Ok(IF b.r.tag = "Some" THEN b.r.value ELSE V_Null))

\* Interpreter::execute_function, the entry of native code (timers, the web server)
\* into a function value; native functions are not modelled
execute_function(func, args, s) ==
    IF func.tag # "Function" THEN Out(s, Err(FlowError("Type", <<"Not", "a", "function">>)))
    ELSE returned(walk(func.body, 1, [s EXCEPT !.env = enter_function(@, func.params, args)],
                       TRUE, Ok_None))

\* --------------------------------------------------- the top-level program
AtTop == pc = "toplevel" /\ stack[0] = << >>

TopTimeout(body) ==
    /\ AtTop
    /\ timer_register("Timeout", body)
    /\ UNCHANGED <<nops, shutdown, callbackQ, webVars, stack, pc, exitBy, lost>>
    /\ UNCHANGED restVars

TopInterval(body) ==
    /\ AtTop
    /\ timer_register("Interval", body)
    /\ UNCHANGED <<nops, shutdown, callbackQ, webVars, stack, pc, exitBy, lost>>
    /\ UNCHANGED restVars

\* web_serve up to the spawn of the server task
TopServe(body) ==
    LET r == add(registry, [type |-> "HttpServer", cancel_tx |-> TRUE]) IN
    /\ AtTop
    /\ registry.next_id <= MaxHandles
    /\ Registered(r)
    /\ task' = [task EXCEPT ![r.id] = "binding"]
    /\ cancelRx' = [cancelRx EXCEPT ![r.id] = "open"]
    /\ cb' = [cb EXCEPT ![r.id] = [type |-> "HttpServer", body |-> body]]
    /\ UNCHANGED <<nops, shutdown, callbackQ, webVars, stack, pc, exitBy, lost>>
    /\ UNCHANGED restVars

TopClear(id) ==
    /\ AtTop
    /\ timer_clear(id)
    /\ UNCHANGED <<nops, shutdown, callbackQ, webVars, task, cb, stack, pc, exitBy, lost>>
    /\ UNCHANGED restVars

\* a wait statement of the top-level program
TopWait ==
    /\ AtTop
    /\ stack' = [stack EXCEPT ![0] = <<[h |-> 0, cb |-> "wait"]>>]
    /\ UNCHANGED <<registry, histVars, nops, shutdown, callbackQ, webVars, task, cancelRx,
                   cb, pc, exitBy, lost>>
    /\ UNCHANGED restVars

\* interpreter.execute(ast) returns Ok
TopReturn ==
    /\ AtTop
    /\ pc' = "precheck"
    /\ UNCHANGED <<registry, histVars, nops, shutdown, callbackQ, webVars, task, cancelRx,
                   cb, stack, exitBy, lost>>
    /\ UNCHANGED restVars

\* interpreter.execute(ast) returns Err: run_file prints the error and returns
TopError ==
    /\ AtTop
    /\ pc' = "exited"
    /\ exitBy' = "error"
    /\ lost' = callbackQ
    /\ UNCHANGED <<registry, histVars, nops, shutdown, callbackQ, webVars, task, cancelRx,
                   cb, stack>>
    /\ UNCHANGED restVars

\* ------------------------------------------------- run_file: the drain loop
LoopPcs == {"check", "drain", "web", "web_recv", "web_acquire", "sleep"}

\* let handle_count = runtime.active_handle_count(); if handle_count > 0 { ... }
PreCheck ==
    /\ pc = "precheck"
    /\ IF active_handle_count > 0
       THEN pc' = "check" /\ UNCHANGED <<exitBy, lost>>
       ELSE pc' = "exited" /\ exitBy' = "skipped" /\ lost' = callbackQ
    /\ UNCHANGED <<registry, histVars, nops, shutdown, callbackQ, webVars, task, cancelRx,
                   cb, stack>>
    /\ UNCHANGED restVars

\* the Ctrl+C task spawned before the loop: shutdown_signal.store(true)
Sigint ==
    /\ pc \in LoopPcs
    /\ ~shutdown
    /\ shutdown' = TRUE
    /\ UNCHANGED <<registry, histVars, nops, callbackQ, webVars, task, cancelRx, cb, stack,
                   pc, exitBy, lost>>
    /\ UNCHANGED restVars

\* the two checks at the head of an iteration
LoopCheck ==
    /\ pc = "check"
    /\ IF is_shutdown_signaled
       THEN pc' = "exited" /\ exitBy' = "shutdown" /\ lost' = callbackQ
       ELSE IF active_handle_count = 0
            THEN pc' = "exited" /\ exitBy' = "nohandles" /\ lost' = callbackQ
            ELSE pc' = "drain" /\ UNCHANGED <<exitBy, lost>>
    /\ UNCHANGED <<registry, histVars, nops, shutdown, callbackQ, webVars, task, cancelRx,
                   cb, stack>>
    /\ UNCHANGED restVars

\* while let Some(request) = runtime.run_event_loop_tick(): execute_function begins
DrainCallback ==
    /\ pc = "drain" /\ stack[0] = << >>
    /\ run_event_loop_tick # << >>
    /\ stack' = [stack EXCEPT ![0] = <<run_event_loop_tick[1]>>]
    /\ callbackQ' = Tail(callbackQ)
    /\ UNCHANGED <<registry, histVars, nops, shutdown, webVars, task, cancelRx, cb, pc,
                   exitBy, lost>>
    /\ env' = [env EXCEPT ![0] = enter_function(@, << >>, TimerArgs)]
    /\ UNCHANGED <<clearLog, extractVars, resp, envOp, importVars, stmtVars, rtVars, pkgVars>>

\* run_event_loop_tick() returned None
DrainEmpty ==
    /\ pc = "drain" /\ stack[0] = << >>
    /\ run_event_loop_tick = << >>
    /\ pc' = "web"
    /\ loop_batch' = 0
    /\ UNCHANGED <<registry, histVars, nops, shutdown, callbackQ, webQ, permits, acc,
                   nextChan, reply, hs, cur, task, cancelRx, cb, stack, exitBy, lost>>
    /\ UNCHANGED restVars

\* a loop that polls the web queue whatever the semaphore holds
WebCheck_IgnorePermits ==
    /\ pc = "web"
    /\ pc' = IF loop_batch < batch_size THEN "web_recv" ELSE "sleep"
    /\ UNCHANGED <<registry, histVars, nops, shutdown, callbackQ, webVars, task, cancelRx,
                   cb, stack, exitBy, lost>>
    /\ UNCHANGED restVars

\* while loop_batch < batch_size { if semaphore.available_permits() > 0 { ...
WebCheck ==
    /\ pc = "web"
    /\ pc' = IF loop_batch < batch_size /\ permits > 0 THEN "web_recv" ELSE "sleep"
    /\ UNCHANGED <<registry, histVars, nops, shutdown, callbackQ, webVars, task, cancelRx,
                   cb, stack, exitBy, lost>>
    /\ UNCHANGED restVars

\* match runtime.get_web_callback()
WebRecv ==
    /\ pc = "web_recv"
    /\ IF get_web_callback # << >>
       THEN /\ cur' = get_web_callback[1]
            /\ webQ' = Tail(webQ)
            /\ pc' = "web_acquire"
       ELSE /\ pc' = "sleep"
            /\ UNCHANGED <<cur, webQ>>
    /\ UNCHANGED <<registry, histVars, nops, shutdown, callbackQ, permits, acc, nextChan,
                   reply, hs, loop_batch, task, cancelRx, cb, stack, exitBy, lost>>
    /\ UNCHANGED restVars

\* a spawn that takes no permit
WebAcquire_NoPermit ==
    /\ pc = "web_acquire"
    /\ hs' = [hs EXCEPT ![cur.chan] = "running"]
    /\ stack' = [stack EXCEPT ![cur.chan] = <<[h |-> cur.srv, cb |-> cur.cb]>>]
    /\ loop_batch' = loop_batch + 1
    /\ cur' = NoReq
    /\ pc' = "web"
    /\ UNCHANGED <<registry, histVars, nops, shutdown, callbackQ, webQ, permits, acc,
                   nextChan, reply, task, cancelRx, cb, exitBy, lost>>
    /\ env' = [env EXCEPT ![cur.chan] =
                  enter_function(Interpreter_clone, HandlerParams, HandlerArgs)]
    /\ UNCHANGED <<clearLog, extractVars, resp, envOp, importVars, stmtVars, rtVars, pkgVars>>

\* semaphore.acquire_owned() and tokio::spawn of the handler on a clone
WebAcquire ==
    /\ pc = "web_acquire"
    /\ permits > 0
    /\ permits' = permits - 1
    /\ hs' = [hs EXCEPT ![cur.chan] = "running"]
    /\ stack' = [stack EXCEPT ![cur.chan] = <<[h |-> cur.srv, cb |-> cur.cb]>>]
    /\ loop_batch' = loop_batch + 1
    /\ cur' = NoReq
    /\ pc' = "web"
    /\ UNCHANGED <<registry, histVars, nops, shutdown, callbackQ, webQ, acc, nextChan,
                   reply, task, cancelRx, cb, exitBy, lost>>
    /\ env' = [env EXCEPT ![cur.chan] =
                  enter_function(Interpreter_clone, HandlerParams, HandlerArgs)]
    /\ UNCHANGED <<clearLog, extractVars, resp, envOp, importVars, stmtVars, rtVars, pkgVars>>

\* the sleep or yield at the end of an iteration
Sleep ==
    /\ pc = "sleep"
    /\ pc' = "check"
    /\ UNCHANGED <<registry, histVars, nops, shutdown, callbackQ, webVars, task, cancelRx,
                   cb, stack, exitBy, lost>>
    /\ UNCHANGED restVars

\* ------------------------------------------------------------ handler tasks
\* a handler task that replies only when the handler returned a value
HandlerSend_OkOnly(c) ==
    /\ Alive /\ hs[c] \in {"reply_ok", "reply_err"}
    /\ reply' = IF hs[c] = "reply_ok"
                THEN [reply EXCEPT ![c] = [tx |-> "sent", sends |-> @.sends + 1,
                                           value |-> "result", rx |-> @.rx]]
                ELSE reply
    /\ hs' = [hs EXCEPT ![c] = "release"]
    /\ UNCHANGED <<registry, histVars, nops, shutdown, callbackQ, webQ, permits, acc,
                   nextChan, cur, loop_batch, task, cancelRx, cb, stack, pc, exitBy, lost>>
    /\ UNCHANGED restVars

\* let _ = web_request.response_tx.send(result)
HandlerSend(c) ==
    /\ Alive /\ hs[c] \in {"reply_ok", "reply_err"}
    /\ reply' = [reply EXCEPT ![c] = [tx |-> "sent", sends |-> @.sends + 1,
                    value |-> IF hs[c] = "reply_ok" THEN "result" ELSE "Error: e",
                    rx |-> @.rx]]
    /\ hs' = [hs EXCEPT ![c] = "release"]
    /\ UNCHANGED <<registry, histVars, nops, shutdown, callbackQ, webQ, permits, acc,
                   nextChan, cur, loop_batch, task, cancelRx, cb, stack, pc, exitBy, lost>>
    /\ UNCHANGED restVars

\* the end of the spawned block drops _permit
HandlerRelease(c) ==
    /\ Alive /\ hs[c] = "release"
    /\ permits' = permits + 1
    /\ hs' = [hs EXCEPT ![c] = "finished"]
    /\ UNCHANGED <<registry, histVars, nops, shutdown, callbackQ, webQ, acc, nextChan,
                   reply, cur, loop_batch, task, cancelRx, cb, stack, pc, exitBy, lost>>
    /\ UNCHANGED restVars

\* ------------------------------------------------------------- web bridge
NoAcc == [st |-> "none", chan |-> 0]

S_error == <<"E", "r", "r", "o", "r", ":", " ", "e">>

\* the Value a handler task sends: what execute_function returned (Null for a
\* handler without a return statement), or the String made of the error
handler_value(v) == IF v = "Error: e" THEN V_String(S_error) ELSE V_Null

\* what the request task answers when the reply sender was dropped
dropped_reply == [status |-> 200, body |-> <<"O", "K">>, content_type |-> text_plain,
                  headers |-> << >>]

\* StatusCode::from_u16(status).unwrap_or(StatusCode::OK)
http_status(r) == IF r.status \in 100..999 THEN r.status ELSE 200

\* bind_with_graceful_shutdown succeeded: the server runs, the request task receives
ServerBind(h) ==
    /\ Alive /\ task[h] = "binding"
    /\ task' = [task EXCEPT ![h] = "serving"]
    /\ acc' = [acc EXCEPT ![h] = [st |-> "recv", chan |-> 0]]
    /\ UNCHANGED <<registry, histVars, nops, shutdown, callbackQ, webQ, permits, nextChan,
                   reply, hs, cur, loop_batch, cancelRx, cb, stack, pc, exitBy, lost>>
    /\ UNCHANGED restVars

\* bind_with_graceful_shutdown panics when the address cannot be bound: the server
\* task ends there
ServerBindFail(h) ==
    /\ Alive /\ task[h] = "binding"
    /\ task' = [task EXCEPT ![h] = "panicked"]
    /\ UNCHANGED <<registry, histVars, nops, shutdown, callbackQ, webVars, cancelRx, cb,
                   stack, pc, exitBy, lost>>
    /\ UNCHANGED restVars

\* a request task that posts every request it receives at once, whether or not the
\* one before was answered
AccPost_NoAwait(h) ==
    /\ Alive /\ task[h] = "serving" /\ acc[h].st \in {"recv", "await"}
    /\ nextChan <= MaxChan
    /\ reply' = [reply EXCEPT ![nextChan] = [tx |-> "held", sends |-> 0, value |-> "none",
                                             rx |-> h]]
    /\ webQ' = Append(webQ, [chan |-> nextChan, srv |-> h, cb |-> cb[h].body])
    /\ acc' = [acc EXCEPT ![h] = [st |-> "await", chan |-> nextChan]]
    /\ nextChan' = nextChan + 1
    /\ UNCHANGED <<registry, histVars, nops, shutdown, callbackQ, permits, hs, cur,
                   loop_batch, task, cancelRx, cb, stack, pc, exitBy, lost>>
    /\ UNCHANGED restVars

\* the request task receives an HTTP request and posts a web callback request
AccPost(h) ==
    /\ Alive /\ task[h] = "serving" /\ acc[h].st = "recv"
    /\ nextChan <= MaxChan
    /\ reply' = [reply EXCEPT ![nextChan] = [tx |-> "held", sends |-> 0, value |-> "none",
                                             rx |-> h]]
    /\ webQ' = Append(webQ, [chan |-> nextChan, srv |-> h, cb |-> cb[h].body])
    /\ acc' = [acc EXCEPT ![h] = [st |-> "await", chan |-> nextChan]]
    /\ nextChan' = nextChan + 1
    /\ UNCHANGED <<registry, histVars, nops, shutdown, callbackQ, permits, hs, cur,
                   loop_batch, task, cancelRx, cb, stack, pc, exitBy, lost>>
    /\ UNCHANGED restVars

\* response_rx.await resolves to Ok(result)
AccReply(h) ==
    /\ Alive /\ acc[h].st = "await"
    /\ reply[acc[h].chan].tx = "sent"
    /\ acc' = [acc EXCEPT ![h] = [st |-> "recv", chan |-> 0]]
    /\ resp' = [resp EXCEPT ![acc[h].chan] =
                    http_status(extract_response(handler_value(reply[acc[h].chan].value)))]
    /\ UNCHANGED <<registry, histVars, nops, shutdown, callbackQ, webQ, permits, nextChan,
                   reply, hs, cur, loop_batch, task, cancelRx, cb, stack, pc, exitBy, lost>>
    /\ UNCHANGED <<clearLog, extractVars, envVars, importVars, stmtVars, rtVars, pkgVars>>

\* response_rx.await resolves to Err: the sender was dropped without a value
AccDropped(h) ==
    /\ acc[h].st = "await"
    /\ reply[acc[h].chan].tx = "dropped"
    /\ acc' = [acc EXCEPT ![h] = [st |-> "recv", chan |-> 0]]
    /\ resp' = [resp EXCEPT ![acc[h].chan] = http_status(dropped_reply)]
    /\ UNCHANGED <<registry, histVars, nops, shutdown, callbackQ, webQ, permits, nextChan,
                   reply, hs, cur, loop_batch, task, cancelRx, cb, stack, pc, exitBy, lost>>
    /\ UNCHANGED <<clearLog, extractVars, envVars, importVars, stmtVars, rtVars, pkgVars>>

\* shutdown_rx resolves, server.await returns, handler_task.abort()
ServerStop(h) ==
    /\ Alive /\ task[h] = "serving"
    /\ cancelRx[h] \in {"sent", "closed"}
    /\ task' = [task EXCEPT ![h] = "unreg"]
    /\ acc' = [acc EXCEPT ![h] = [st |-> "aborted", chan |-> 0]]
    /\ UNCHANGED <<registry, histVars, nops, shutdown, callbackQ, webQ, permits, nextChan,
                   reply, hs, cur, loop_batch, cancelRx, cb, stack, pc, exitBy, lost>>
    /\ UNCHANGED restVars

\* ---------------------------------------------------------------- the end
\* run_file returns and main returns: the tokio runtime is dropped, and with it every
\* task that is still pending, the queues and the registry
HeldBy(c) == hs[c] \in {"running", "reply_ok", "reply_err", "release"}

Teardown ==
    /\ pc = "exited"
    /\ pc' = "done"
    /\ hs' = [c \in ChanIds |-> IF HeldBy(c) THEN "dropped" ELSE hs[c]]
    /\ reply' = [c \in ChanIds |->
                    IF reply[c].tx = "held" THEN [reply[c] EXCEPT !.tx = "dropped"]
                    ELSE reply[c]]
    /\ permits' = permits + Cardinality({c \in ChanIds : HeldBy(c)})
    /\ webQ' = << >>
    /\ callbackQ' = << >>
    /\ task' = [h \in HandleIds |->
                    IF task[h] \in {"armed", "unreg", "binding", "serving"}
                    THEN "dropped" ELSE task[h]]
    /\ acc' = [h \in HandleIds |-> IF acc[h].st = "recv"
                                   THEN [st |-> "aborted", chan |-> 0] ELSE acc[h]]
    /\ stack' = [e \in Evals |-> << >>]
    /\ UNCHANGED <<registry, histVars, nops, shutdown, nextChan, cur, loop_batch, cancelRx,
                   cb, exitBy, lost>>
    /\ UNCHANGED restVars

\* ------------------------------------------------------------ specification
\* ------------------------------------------------------------ Interpreter
\* the files of a program by canonical path, the entry file first
Files == {"main", "a", "d"}

\* Interpreter::with_dir, with current_file and loading_stack as the caller sets them
Interpreter_with_dir(file, loading_stack) ==
    [file |-> file, env |-> Environment_new, module_cache |-> << >>,
     loading_stack |-> loading_stack, ip |-> 1]

\* the Runtime of an interpreter: Interpreter::new and Interpreter::with_dir both
\* create one, `runtime: Arc::new(Runtime::new())`, here the n-th of the process
Interpreter_on(file, n) == [file |-> file, runtime |-> n, ip |-> 1, module_cache |-> {}]
\* the interpreter run_file creates for the entry file
Interpreter_new == Interpreter_on("main", 1)

NoError == [kind |-> "none", chain |-> << >>]

NoEnvOp == [op |-> "none", before |-> Environment_new]

InitRuntime ==
    /\ registry = HandleRegistry_new
    /\ live = {}
    /\ issued = << >>
    /\ lastOp = NoOp
    /\ nops = 0
    /\ shutdown = FALSE
    /\ callbackQ = << >>
    /\ webQ = << >>
    /\ permits = MaxPermits
    /\ task = [h \in HandleIds |-> "none"]
    /\ cancelRx = [h \in HandleIds |-> "none"]
    /\ cb = [h \in HandleIds |-> NoCb]
    /\ acc = [h \in HandleIds |-> NoAcc]
    /\ nextChan = 1
    /\ reply = [c \in ChanIds |-> NoReply]
    /\ hs = [c \in ChanIds |-> "none"]
    /\ stack = [e \in Evals |-> << >>]
    /\ pc = "toplevel"
    /\ loop_batch = 0
    /\ cur = NoReq
    /\ exitBy = "none"
    /\ lost = << >>
    /\ clearLog = << >>
    /\ resp = [c \in ChanIds |-> 0]
    /\ env = [e \in Evals |-> Environment_new]
    /\ envOp = NoEnvOp
    /\ frames = <<Interpreter_with_dir("main", << >>)>>
    /\ runs = [f \in Files |-> 0]
    /\ importErr = NoError
    /\ ast = NotOptimized
    /\ interp = Interp(Environment_new)
    /\ ip = 1
    /\ stmtResult = NoResult
    /\ call = NoCall
    /\ runtimes = <<Runtime_new>>
    /\ interps = <<Interpreter_new>>
    /\ timers = << >>
    /\ mainLoop = [pc |-> "toplevel", executed |-> << >>]
    /\ parsed = NoResult

NoOut == [status |-> 0, body |-> << >>, content_type |-> << >>, headers |-> << >>]

Init ==
    /\ InitRuntime
    /\ prog = [f \in Files |-> << >>]
    /\ program = << >>
    /\ R = V_Null
    /\ out = NoOut
    /\ url = << >>

Next ==
    \/ \E body \in CbKinds : TopTimeout(body)
    \/ \E body \in CbKinds : TopInterval(body)
    \/ \E body \in HandlerKinds : TopServe(body)
    \/ \E id \in HandleIds : TopClear(id)
    \/ TopWait
    \/ TopReturn
    \/ TopError
    \/ PreCheck
    \/ Sigint
    \/ LoopCheck
    \/ DrainCallback
    \/ DrainEmpty
    \/ WebCheck
    \/ WebRecv
    \/ WebAcquire
    \/ Sleep
    \/ Teardown
    \/ \E e \in Evals : CallbackReturn(e)
    \/ \E e \in Evals, id \in HandleIds : CallbackClear(e, id)
    \/ \E e \in Evals : WaitDrain(e)
    \/ \E h \in HandleIds : TimeoutFire(h)
    \/ \E h \in HandleIds : IntervalTick(h)
    \/ \E h \in HandleIds : TimerCancelled(h)
    \/ \E h \in HandleIds : TaskUnregister(h)
    \/ \E h \in HandleIds : ServerBind(h)
    \/ \E h \in HandleIds : ServerBindFail(h)
    \/ \E h \in HandleIds : AccPost(h)
    \/ \E h \in HandleIds : AccReply(h)
    \/ \E h \in HandleIds : AccDropped(h)
    \/ \E h \in HandleIds : ServerStop(h)
    \/ \E c \in ChanIds : HandlerSend(c)
    \/ \E c \in ChanIds : HandlerRelease(c)

Spec == Init /\ [][Next]_vars

\* ----------------------------------- the registry alone: any adds and removes
loopVars == <<shutdown, callbackQ, webVars, task, cancelRx, cb, stack, pc, exitBy, lost>>

RegAdd(type) ==
    LET r == add(registry, [type |-> type, cancel_tx |-> TRUE]) IN
    /\ nops < MaxOps
    /\ registry.next_id <= MaxHandles
    /\ registry' = r.reg
    /\ live' = live \cup {r.id}
    /\ issued' = Append(issued, r.id)
    /\ lastOp' = [op |-> "add", id |-> r.id, result |-> TRUE, before |-> registry,
                  liveBefore |-> live]
    /\ nops' = nops + 1
    /\ UNCHANGED loopVars
    /\ UNCHANGED restVars

RegRemove(id) ==
    LET r == remove(registry, id) IN
    /\ nops < MaxOps
    /\ registry' = r.reg
    /\ live' = live \ {id}
    /\ issued' = issued
    /\ lastOp' = [op |-> "remove", id |-> id, result |-> r.existed, before |-> registry,
                  liveBefore |-> live]
    /\ nops' = nops + 1
    /\ UNCHANGED loopVars
    /\ UNCHANGED restVars

NextRegistry ==
    \/ \E type \in HandleTypes : RegAdd(type)
    \/ \E id \in 1..(MaxHandles + 1) : RegRemove(id)

SpecRegistry == Init /\ [][NextRegistry]_vars

\* ------------------------------- timers registered and cleared by the program
\* a call of timer.clear by the top-level program, with its argument, the registry
\* before and after, the receiver's state after, and the value returned
TimerClearCall(id) ==
    /\ AtTop
    /\ Len(clearLog) < MaxClears
    /\ timer_clear(id)
    /\ clearLog' = Append(clearLog,
            [id |-> id, result |-> timer_clear_result(id), before |-> registry,
             after |-> registry',
             rx |-> IF id \in HandleIds THEN cancelRx'[id] ELSE "none"])
    /\ UNCHANGED <<nops, shutdown, callbackQ, webVars, task, cb, stack, pc, exitBy, lost>>
    /\ UNCHANGED <<extractVars, resp, envVars, importVars, stmtVars, rtVars, pkgVars>>

NextClear ==
    \/ TopTimeout("plain")
    \/ TopInterval("plain")
    \/ TopServe("plain")
    \/ \E id \in 1..(MaxHandles + 1) : TimerClearCall(id)
    \/ \E h \in HandleIds : TimeoutFire(h)
    \/ \E h \in HandleIds : TimerCancelled(h)
    \/ \E h \in HandleIds : TaskUnregister(h)

SpecClear == Init /\ [][NextClear]_vars

\* ----------------------------------- programs that bind and assign variables
\* the value an evaluator writes: the main program at top level, the main
\* evaluator inside a timer callback, and handler c
TopValue == V_Number(100, 0)
WrittenBy(e) == IF e = 0 THEN V_Number(200, 0) ELSE V_Number(e, 0)

\* Statement::Let of the top-level program
TopLet(name, is_exported) ==
    /\ AtTop
    /\ Environment_get(env[0], name) = << >>
    /\ env' = [env EXCEPT ![0] = define_with_export(@, name, TopValue, TRUE, is_exported)]
    /\ UNCHANGED <<registry, histVars, nops, loopVars, clearLog, extractVars, resp, envOp,
                   importVars, stmtVars, rtVars, pkgVars>>

\* Statement::Assign inside a callback or handler: env.set succeeds
StmtAssign(e, name) ==
    LET r == Environment_set(env[e], name, WrittenBy(e)) IN
    /\ Running(e) /\ stack[e] # << >>
    /\ r.result = "ok"
    /\ r.scopes # env[e]
    /\ env' = [env EXCEPT ![e] = r.scopes]
    /\ UNCHANGED <<registry, histVars, nops, loopVars, clearLog, extractVars, resp, envOp,
                   importVars, stmtVars, rtVars, pkgVars>>

\* Statement::Let inside a callback or handler
StmtLet(e, name) ==
    /\ Running(e) /\ stack[e] # << >>
    /\ Environment_get(env[e], name) = << >>
    /\ env' = [env EXCEPT ![e] = define_with_export(@, name, WrittenBy(e), TRUE, FALSE)]
    /\ UNCHANGED <<registry, histVars, nops, loopVars, clearLog, extractVars, resp, envOp,
                   importVars, stmtVars, rtVars, pkgVars>>

NextClone ==
    \/ TopLet("x", FALSE)
    \/ TopServe("plain")
    \/ TopInterval("plain")
    \/ TopReturn
    \/ PreCheck
    \/ LoopCheck
    \/ DrainCallback
    \/ DrainEmpty
    \/ WebCheck
    \/ WebRecv
    \/ WebAcquire
    \/ Sleep
    \/ \E e \in Evals : CallbackReturn(e)
    \/ \E e \in Evals : StmtAssign(e, "x")
    \/ \E e \in Evals : StmtLet(e, "y")
    \/ \E h \in HandleIds : IntervalTick(h)
    \/ \E h \in HandleIds : ServerBind(h)
    \/ \E h \in HandleIds : AccPost(h)
    \/ \E h \in HandleIds : AccReply(h)
    \/ \E c \in ChanIds : HandlerSend(c)
    \/ \E c \in ChanIds : HandlerRelease(c)

SpecClone == Init /\ [][NextClone]_vars

\* --------------------------------------- scope operations of the environment
\* a block of the top-level program is entered
ScopePush ==
    /\ AtTop
    /\ scope_depth(env[0]) < MaxScopes
    /\ env' = [env EXCEPT ![0] = push_scope(@)]
    /\ envOp' = [op |-> "push", before |-> env[0]]
    /\ UNCHANGED <<registry, histVars, nops, loopVars, clearLog, extractVars, resp,
                   importVars, stmtVars, rtVars, pkgVars>>

\* env.pop_scope()
ScopePop ==
    /\ AtTop
    /\ env' = [env EXCEPT ![0] = pop_scope(@)]
    /\ envOp' = [op |-> "pop", before |-> env[0]]
    /\ UNCHANGED <<registry, histVars, nops, loopVars, clearLog, extractVars, resp,
                   importVars, stmtVars, rtVars, pkgVars>>

\* Statement::Let / Statement::Seal in the current scope
ScopeLet(name, is_mutable, is_exported) ==
    /\ AtTop
    /\ name \notin DOMAIN env[0][Len(env[0])]
    /\ env' = [env EXCEPT ![0] =
                  define_with_export(@, name, TopValue, is_mutable, is_exported)]
    /\ envOp' = [op |-> "define", before |-> env[0]]
    /\ UNCHANGED <<registry, histVars, nops, loopVars, clearLog, extractVars, resp,
                   importVars, stmtVars, rtVars, pkgVars>>

NextScopes ==
    \/ ScopePush
    \/ ScopePop
    \/ \E name \in {"x", "y"}, m, x \in BOOLEAN : ScopeLet(name, m, x)

SpecScopes == Init /\ [][NextScopes]_vars

\* ------------------------------------------------- imports and module loading
\* every module defines one exported and one private global
FileNo(f) == CASE f = "main" -> 1 [] f = "a" -> 2 [] f = "d" -> 3
PubValue(f) == V_Number(10 * FileNo(f) + 1, 0)
PrivValue(f) == V_Number(10 * FileNo(f) + 2, 0)

\* the statements of a module file, executed after its imports
module_statements(scopes, f) ==
    define_with_export(define_with_export(scopes, "pub", PubValue(f), TRUE, TRUE),
                       "priv", PrivValue(f), TRUE, FALSE)

\* an import statement: the module, and Some(names) for a selective import
Import(module, selective) == [module |-> module, selective |-> selective]

SeqsUpTo(S, n) == UNION {[1..k -> S] : k \in 0..n}

Programs ==
    {[main |-> m, a |-> x, d |-> y] :
        m \in SeqsUpTo({Import(t, sel) : t \in Files,
                            sel \in {<< >>, << <<"pub">> >>, << <<"priv">> >>}},
                       MaxImports),
        x \in SeqsUpTo({Import(t, << >>) : t \in Files}, MaxImports),
        y \in SeqsUpTo({Import(t, << >>) : t \in Files}, MaxImports)}

\* the selective branch of execute_import: the names bound so far, and the error
RECURSIVE import_selective(_, _, _)
import_selective(scopes, module_env, names) ==
    IF names = << >> THEN [scopes |-> scopes, err |-> FALSE]
    ELSE LET member_value == Environment_get(module_env, Head(names)) IN
         IF member_value = << >> THEN [scopes |-> scopes, err |-> TRUE]
         ELSE import_selective(define(scopes, Head(names), member_value[1], FALSE),
                               module_env, Tail(names))

\* step 3 of execute_import: import symbols
import_symbols(scopes, module_env, import) ==
    IF import.selective # << >>
    THEN import_selective(scopes, module_env, import.selective[1])
    ELSE [scopes |-> define(scopes, import.module, V_Relic(get_all_public(module_env)),
                            FALSE),
          err |-> FALSE]

TopFrame == frames[Len(frames)]
CurrentImport(F) == prog[F.file][F.ip]
Importing == importErr = NoError /\ TopFrame.ip <= Len(prog[TopFrame.file])

\* frames and error after the interpreter at position n has the module's
\* environment in its cache and imports its symbols
Bound(n, F, module_env) ==
    LET r == import_symbols(F.env, module_env, CurrentImport(F)) IN
    /\ frames' = SubSeq(frames, 1, n - 1) \o
                 <<[F EXCEPT !.env = r.scopes, !.ip = IF r.err THEN @ ELSE @ + 1]>>
    /\ importErr' = IF r.err THEN [kind |-> "noexport", chain |-> << >>] ELSE NoError

\* the module is on the loading stack: the circular-dependency error
ImportCircular ==
    LET t == CurrentImport(TopFrame).module IN
    /\ Importing
    /\ t \in Range(TopFrame.loading_stack)
    /\ importErr' = [kind |-> "circular", chain |-> Append(TopFrame.loading_stack, t)]
    /\ UNCHANGED <<registry, histVars, nops, loopVars, clearLog, extractVars, resp, envVars,
                   prog, frames, runs, stmtVars, rtVars, pkgVars>>

\* the module is not cached: push, read, parse, execute in a new interpreter
ImportLoad ==
    LET t == CurrentImport(TopFrame).module
        stack_t == Append(TopFrame.loading_stack, t) IN
    /\ Importing
    /\ t \notin Range(TopFrame.loading_stack)
    /\ t \notin DOMAIN TopFrame.module_cache
    /\ frames' = [frames EXCEPT ![Len(frames)].loading_stack = stack_t]
                 \o <<Interpreter_with_dir(t, stack_t)>>
    /\ UNCHANGED <<registry, histVars, nops, loopVars, clearLog, extractVars, resp, envVars,
                   prog, runs, importErr, stmtVars, rtVars, pkgVars>>

\* the module is in this interpreter's cache
ImportCached ==
    LET t == CurrentImport(TopFrame).module IN
    /\ Importing
    /\ t \notin Range(TopFrame.loading_stack)
    /\ t \in DOMAIN TopFrame.module_cache
    /\ Bound(Len(frames), TopFrame, TopFrame.module_cache[t])
    /\ UNCHANGED <<registry, histVars, nops, loopVars, clearLog, extractVars, resp, envVars,
                   prog, runs, stmtVars, rtVars, pkgVars>>

\* module_interpreter.execute(ast) returns Ok: its statements have run; the
\* importer caches the environment, pops the loading stack and imports the symbols
ModuleReturn ==
    LET n == Len(frames)
        module_env == module_statements(TopFrame.env, TopFrame.file)
        P == [frames[n - 1] EXCEPT
                 !.module_cache = (TopFrame.file :> module_env) @@ @,
                 !.loading_stack = SubSeq(@, 1, Len(@) - 1)] IN
    /\ importErr = NoError
    /\ n > 1
    /\ TopFrame.ip > Len(prog[TopFrame.file])
    /\ runs' = [runs EXCEPT ![TopFrame.file] = @ + 1]
    /\ Bound(n - 1, P, module_env)
    /\ UNCHANGED <<registry, histVars, nops, loopVars, clearLog, extractVars, resp, envVars,
                   prog, stmtVars, rtVars, pkgVars>>

InitImport ==
    /\ InitRuntime
    /\ prog \in Programs
    /\ program = << >>
    /\ R = V_Null
    /\ out = NoOut
    /\ url = << >>

NextImport ==
    \/ ImportCircular
    \/ ImportLoad
    \/ ImportCached
    \/ ModuleReturn

SpecImport == InitImport /\ [][NextImport]_vars

\* the REPL: execute_import returned an error, which is printed; the module
\* interpreters are gone, and the same evaluator takes the next import, which is
\* the same one entered again or the one after it
ReplNextImport ==
    /\ importErr # NoError
    /\ importErr' = NoError
    /\ \E again \in BOOLEAN :
        frames' = <<[frames[1] EXCEPT !.ip = IF again THEN @ ELSE @ + 1]>>
    /\ UNCHANGED <<registry, histVars, nops, loopVars, clearLog, extractVars, resp, envVars,
                   prog, runs, stmtVars, rtVars, pkgVars>>

NextRepl == NextImport \/ ReplNextImport

SpecRepl == InitImport /\ [][NextRepl]_vars

\* ------------------------------------ extract_response on the handler results
S_json == <<"{", "}">>
S_array == <<" ", "[", "1", "]">>
S_html == <<" ", " ", "<", "p">>
S_text == <<"h", "i">>
S_blank == <<" ", " ">>
S_brace_after_text == <<"h", "{">>

\* Option<Value> as a sequence of length 0 or 1
StatusFields == {<< >>, <<V_Number(201, 0)>>, <<V_Number(70000, 0)>>, <<V_Number(404, 5)>>,
                 <<V_String(<<"2", "0", "1">>)>>}

BodyFields == {<< >>, <<V_String(S_json)>>, <<V_String(S_array)>>, <<V_String(S_html)>>,
               <<V_String(S_text)>>, <<V_String(S_blank)>>,
               <<V_String(S_brace_after_text)>>, <<V_Number(7, 0)>>, <<V_Null>>,
               <<V_Boolean(TRUE)>>, <<V_Array(<<V_Number(1, 0), V_String(S_text)>>)>>,
               <<V_Relic((<<"k">> :> V_Number(1, 5)) @@ (<<"a">> :> V_Null))>>}

ContentTypeFields == {<< >>, <<V_String(text_html)>>, <<V_Number(1, 0)>>}

HeadersFields == {<< >>, <<V_Relic((<<"x">> :> V_String(S_text)) @@ (<<"n">> :> V_Number(7, 0)))>>,
                  <<V_String(S_text)>>}

Field(key, opt) == IF opt = << >> THEN << >> ELSE (key :> opt[1])

HandlerResults ==
    {V_Relic(Field(K_status, st) @@ Field(K_body, b) @@ Field(K_contentType, ct)
             @@ Field(K_headers, h)) :
        st \in StatusFields, b \in BodyFields, ct \in ContentTypeFields,
        h \in HeadersFields}
    \cup {V_String(S_json), V_String(S_text), V_String(<< >>)}
    \cup {V_Number(n, 0) : n \in {0 - 1, 0, 200, 404, 65535, 65536}}
    \cup {V_Number(404, 5), V_Null, V_Boolean(FALSE), V_Handle(3),
          V_Array(<< >>)}

InitExtract ==
    /\ InitRuntime
    /\ prog = [f \in Files |-> << >>]
    /\ program = << >>
    /\ R \in HandlerResults
    /\ out = NoOut
    /\ url = << >>

\* the acceptor gives the handler's result to extract_response
ExtractResponse ==
    /\ out = NoOut
    /\ out' = extract_response(R)
    /\ UNCHANGED <<registry, histVars, nops, loopVars, clearLog, R, resp, envVars,
                   importVars, stmtVars, rtVars, pkgVars>>

SpecExtract == InitExtract /\ [][ExtractResponse]_vars

\* ------------------------------------------- programs of statements, executed
\* sequences over S of length at most n
StmtSeqs(S, n) == UNION {[1..k -> S] : k \in 0..n}

Names == {"x", "y"}

\* a sealed name, then assignments to it and to another name, at top level, in a
\* ward, in a stance and in a function body
AssignX == S_Assignment("x", E_Number(2), 2)
SealPrograms ==
    {<<S_Seal("x", E_Number(1), 1), S_Let("y", E_Number(5), 1),
       S_FunctionDecl("f", << >>, <<AssignX>>, 1)>> \o rest :
        rest \in StmtSeqs({AssignX,
                           S_Assignment("y", E_Identifier("x"), 3),
                           S_Ward(<<AssignX>>, 4),
                           S_Stance(E_Identifier("y"), <<AssignX>>, << >>, 5),
                           S_Ward(<<S_Expression(E_Call(E_Identifier("f"), << >>), 6)>>, 6),
                           S_Let("x", E_Number(3), 7)}, MaxStmts)}

\* a statement without effect: its line is all it leaves, in the trace
Mark(line) == S_Expression(E_Number(0), line)

\* statements that raise an error, and the kind of the error each raises
Raises == {S_Panic(12), S_Rupture("Spirit", 12),
           S_Expression(E_Binary(E_Number(1), "Divide", E_Number(0)), 12)}
RaisedKind(stmt) ==
    CASE stmt.type = "Panic" -> "Panic"
      [] stmt.type = "Rupture" -> stmt.error_type
      [] stmt.type = "Expression" ->
            IF stmt.expr.type = "Identifier" THEN "Undefined" ELSE "DivisionByZero"
      [] stmt.type = "Assignment" -> "Runtime"

\* the lines of the marks in an attempt: its body before and after the raise, the
\* body of rescue clause i, the raise in a rescue body, the finally block
LineOf(part) ==
    CASE part = "body" -> 10
      [] part = "after" -> 11
      [] part = "rescue raise" -> 25
      [] part = "finally" -> 30
      [] part = "next" -> 40
      [] part = "inner" -> 15
RescueLine(i) == 20 + i

RescueKinds == {<< >>, <<"Panic">>, <<"Spirit">>}
RescueClauses(kinds, raising) ==
    [i \in DOMAIN kinds |->
        RescueClause(kinds[i], << >>, << >>,
                     <<Mark(RescueLine(i))>>
                     \o (IF raising THEN <<S_Rupture("Rift", LineOf("rescue raise"))>> ELSE << >>))]

\* one attempt: its body succeeds or raises; rescue clauses of some kinds, whose
\* bodies succeed or raise; no finally block, or one that succeeds or raises
AttemptPrograms ==
    {<<S_Attempt(body, RescueClauses(kinds, raising), finally, 1)>> :
        body \in {<<Mark(LineOf("body"))>>}
                  \cup {<<Mark(LineOf("body")), r, Mark(LineOf("after"))>> : r \in Raises},
        kinds \in StmtSeqs(RescueKinds, MaxClauses),
        raising \in BOOLEAN,
        finally \in {<< >>, <<<<Mark(LineOf("finally"))>>>>,
                     <<<<Mark(LineOf("finally")), S_Rupture("Glitch", LineOf("finally") + 1)>>>>}}

\* an attempt body that fails K times and then succeeds: it counts its runs in n
\* and panics up to run K; its last statement returns a value, or is a mark
FailingBody(K, returning) ==
    <<S_Assignment("n", E_Binary(E_Identifier("n"), "Add", E_Number(1)), LineOf("body")),
      S_Stance(E_Binary(E_Identifier("n"), "Less", E_Number(K + 1)), <<S_Panic(12)>>,
               << >>, LineOf("after")),
      IF returning THEN S_Return(<<E_Number(42)>>, 13) ELSE Mark(13)>>

\* `attempt { body } rescue retry N { mark }` for the bodies above
RetryPrograms ==
    {<<S_Let("n", E_Number(0), 1),
       S_Attempt(FailingBody(K, returning),
                 <<RescueClause(<< >>, << >>, <<N>>, <<Mark(RescueLine(1))>>)>>, << >>, 2)>> :
        K \in 0..MaxRetry, N \in 0..MaxRetry, returning \in BOOLEAN}

\* statements that raise the other kinds of error
WardRaises ==
    Raises \cup {S_Rupture("Rift", 12), S_Rupture("Glitch", 12), S_Rupture("VoidTear", 12),
                 S_Expression(E_Identifier("zz"), 12),
                 S_Assignment("zz", E_Number(1), 12)}

\* where the body of a ward raises: at once, in a stance, or in a function it calls
Ways == {"at once", "stance", "call"}
Raising(r, way) ==
    CASE way = "at once" -> r
      [] way = "stance" -> S_Stance(E_Boolean(TRUE), <<r>>, << >>, 14)
      [] way = "call" -> S_Expression(E_Call(E_Identifier("f"), << >>), 14)

\* a function that raises, a ward whose body raises between two marks, and a mark
\* after the ward
WardPrograms ==
    {<<S_FunctionDecl("f", << >>, <<r>>, 1),
       S_Ward(<<Mark(LineOf("body")), Raising(r, way), Mark(LineOf("after"))>>, 2),
       Mark(LineOf("next"))>> : r \in WardRaises, way \in Ways}

\* what stands around a break or continue in a loop body
Wraps == {"at once", "stance", "ward", "attempt", "attempt Panic"}
Wrapped(signal, wrap) ==
    CASE wrap = "at once" -> signal
      [] wrap = "stance" -> S_Stance(E_Boolean(TRUE), <<signal>>, << >>, 14)
      [] wrap = "ward" -> S_Ward(<<signal>>, 14)
      [] wrap = "attempt" ->
            S_Attempt(<<signal>>,
                      <<RescueClause(<< >>, << >>, << >>, <<Mark(RescueLine(1))>>)>>, << >>, 14)
      [] wrap = "attempt Panic" ->
            S_Attempt(<<signal>>,
                      <<RescueClause(<<"Panic">>, << >>, << >>, <<Mark(RescueLine(1))>>)>>,
                      << >>, 14)

\* a loop of two iterations whose body breaks or continues between two marks
LoopPrograms ==
    {<<S_Phase("i", E_Number(1), E_Number(2),
               <<Mark(LineOf("body")), Wrapped(signal, wrap), Mark(LineOf("after"))>>, 1),
       Mark(LineOf("next"))>> :
        signal \in {S_BreakSeal(12), S_FractureSeal(12)}, wrap \in Wraps}

\* the statement of a function body that holds a return, followed there by a mark
Nests == {"at once", "stance", "aura", "phase", "ward", "attempt", "attempt last"}
Nested(ret, nest) ==
    LET inner == <<ret, Mark(LineOf("inner"))>> IN
    CASE nest = "at once" -> ret
      [] nest = "stance" -> S_Stance(E_Boolean(TRUE), inner, << >>, 14)
      [] nest = "aura" -> S_Aura(E_Number(1), <<<<E_Number(1), inner>>>>, << >>, 14)
      [] nest = "phase" -> S_Phase("i", E_Number(1), E_Number(2), inner, 14)
      [] nest = "ward" -> S_Ward(inner, 14)
      [] nest = "attempt" -> S_Attempt(inner, << >>, << >>, 14)
      [] nest = "attempt last" -> S_Attempt(<<ret>>, << >>, << >>, 14)

\* a function whose body returns between two marks, and a call that binds its result
ReturnPrograms ==
    {<<S_FunctionDecl("f", << >>,
                      <<Mark(LineOf("body")), Nested(ret, nest), Mark(LineOf("after"))>>, 1),
       S_Let("r", E_Call(E_Identifier("f"), << >>), 2)>> :
        ret \in {S_Return(<<E_Number(42)>>, 12), S_ShatterGrandSeal(<<E_Number(42)>>, 12)},
        nest \in Nests}

\* `let r = left both! f()` and `let r = left either! f()`: the right operand is a
\* call with a visible effect, which returns true or raises
LogicPrograms ==
    {<<S_FunctionDecl("f", << >>, <<Mark(LineOf("body")), last>>, 1),
       S_Let("r", E_Binary(left, operator, E_Call(E_Identifier("f"), << >>)), 2)>> :
        last \in {S_Return(<<E_Boolean(TRUE)>>, 12), S_Panic(12)},
        left \in {E_Boolean(FALSE), E_Boolean(TRUE), E_Number(0), E_Number(1)},
        operator \in {"Both", "Either"}}

\* `let b = ..; let r = a / divisor`: the divisor is a literal, a sum of literals,
\* or the variable b
Literals == {E_Number(n) : n \in 0..MaxNum}
Divisors ==
    Literals \cup {E_Identifier("b")}
    \cup {E_Binary(E_Number(0), "Add", l) : l \in Literals}
DividePrograms ==
    {<<S_Let("b", b, 1), S_Let("r", E_Binary(a, "Divide", divisor), 2)>> :
        b \in Literals, a \in Literals, divisor \in Divisors}

\* the array operations of a program, with their arguments
ArrayOps ==
    {<<"push", <<E_Number(4)>>>>, <<"pop", << >>>>, <<"reverse", << >>>>,
     <<"concat", <<E_Array(<<E_Number(4)>>)>>>>,
     <<"slice", <<E_Number(0), E_Number(1)>>>>,
     <<"constellation", <<E_Identifier("small")>>>>,
     <<"filter", <<E_Identifier("small")>>>>,
     <<"reduce", <<E_Identifier("sum"), E_Number(0)>>>>}

\* `let arr = [1, .., n]; let arr2 = arr.operation(..)`, with the callbacks declared
ArrayPrograms ==
    {<<S_Let("arr", E_Array([i \in 1..n |-> E_Number(i)]), 1),
       S_FunctionDecl("small", <<"e">>,
           <<S_Return(<<E_Binary(E_Identifier("e"), "Less", E_Number(2))>>, 10)>>, 2),
       S_FunctionDecl("sum", <<"a", "e">>,
           <<S_Return(<<E_Binary(E_Identifier("a"), "Add", E_Identifier("e"))>>, 11)>>, 3),
       S_Let("arr2", E_MethodCall(E_Identifier("arr"), op[1], op[2]), 4)>> :
        n \in 0..MaxArr, op \in ArrayOps}

\* the statements of a function the host calls; a return on line 50 + k returns k,
\* the returns on lines 61 and 62 return the parameters a and b
ReturnLines == {50, 51, 52, 61, 62}
Ret1 == S_Return(<<E_Number(1)>>, 51)
Shatter2 == S_ShatterGrandSeal(<<E_Number(2)>>, 52)
RetA == S_Return(<<E_Identifier("a")>>, 61)
RetB == S_Return(<<E_Identifier("b")>>, 62)
BodyStatements ==
    {S_Return(<< >>, 50), Ret1, Shatter2, RetA, RetB, Mark(40),
     S_Stance(E_Boolean(TRUE), <<Ret1>>, << >>, 41),
     S_Phase("i", E_Number(1), E_Number(2), <<RetA>>, 42),
     S_Attempt(<<Ret1, Shatter2>>, << >>, << >>, 43),
     S_Attempt(<<RetA, Mark(44)>>, << >>, << >>, 43)}

\* `Spell f(params) { body }`, which the host then calls
FunctionPrograms ==
    {<<S_FunctionDecl("f", params, body, 1)>> :
        params \in {<< >>, <<"a">>, <<"a", "b">>}, body \in StmtSeqs(BodyStatements, MaxStmts)}

\* the arguments of a call by the host: k distinct values
Args(k) == [i \in 1..k |-> V_Number(6 + i, 0)]

\* the messages of a rupture: "down", the empty string and a number
Down == <<"d", "o", "w", "n">>
Messages == {E_String(Down), E_String(<< >>), E_Number(5)}

\* `attempt { rupture Kind message } rescue [Kind] as e { }`
BindPrograms ==
    {<<S_Attempt(<<S_RuptureWith(kind, message, 10)>>,
                 <<RescueClause(error_type, <<"e">>, << >>, <<Mark(21)>>)>>, << >>, 1)>> :
        kind \in {"Rift", "Glitch", "VoidTear", "Spirit"}, message \in Messages,
        error_type \in {<< >>, <<"Rift">>, <<"Spirit">>}}

StmtPrograms ==
    FunctionPrograms \cup BindPrograms \cup SealPrograms \cup AttemptPrograms \cup RetryPrograms \cup WardPrograms \cup LoopPrograms
    \cup ReturnPrograms \cup LogicPrograms \cup DividePrograms \cup ArrayPrograms

InitStmt ==
    /\ InitRuntime
    /\ prog = [f \in Files |-> << >>]
    /\ R = V_Null
    /\ out = NoOut
    /\ url = << >>
    /\ program \in StmtPrograms

\* run_file: the optimizer pass over the parsed program
Optimize ==
    /\ ~ast.optimized
    /\ ast' = Optimized(fold(program))
    /\ UNCHANGED <<registry, histVars, nops, loopVars, clearLog, extractVars, resp, envVars,
                   importVars, program, interp, ip, stmtResult, call, rtVars, pkgVars>>

ExecutingProgram == ast.optimized /\ ip <= Len(ast.statements) /\ ~IsErr(stmtResult)

\* Interpreter::execute: the next statement of the program; an error ends the run
ExecuteStatement ==
    /\ ExecutingProgram
    /\ \E x \in {execute_statement(ast.statements[ip], interp)} :
        /\ interp' = x.s
        /\ stmtResult' = x.r
    /\ ip' = ip + 1
    /\ UNCHANGED <<registry, histVars, nops, loopVars, clearLog, extractVars, resp, envVars,
                   importVars, program, ast, call, rtVars, pkgVars>>

\* the program has run to its end
ProgramDone == ast.optimized /\ ip > Len(ast.statements) /\ ~IsErr(stmtResult)

\* native code calls the function f the program declared, as the drain loop calls a
\* timer callback, with any number of arguments
ExecuteFunction ==
    /\ program \in FunctionPrograms
    /\ ProgramDone
    /\ ~call.made
    /\ \E k \in 0..MaxArgs :
        \E x \in {execute_function(Environment_get(interp.env, "f")[1], Args(k), interp)} :
        /\ interp' = x.s
        /\ call' = [made |-> TRUE, args |-> Args(k), before |-> interp, result |-> x.r]
    /\ UNCHANGED <<registry, histVars, nops, loopVars, clearLog, extractVars, resp, envVars,
                   importVars, program, ast, ip, stmtResult, rtVars, pkgVars>>

NextStmt == Optimize \/ ExecuteStatement \/ ExecuteFunction

SpecStmt == InitStmt /\ [][NextStmt]_vars

\* ------------------------------------- the Runtime of the entry file and of modules
\* the statements of a file: `circle module`, and a call of timer.timeout
T_Import(module) == [stmt |-> "import", module |-> module]
T_Timeout == [stmt |-> "timer.timeout", module |-> "none"]

\* main may import a, a may import d, and every file may start timers
TimerPrograms ==
    {[main |-> m, a |-> x, d |-> y] :
        m \in SeqsUpTo({T_Import("a"), T_Timeout}, MaxModuleStmts),
        x \in SeqsUpTo({T_Import("d"), T_Timeout}, MaxModuleStmts),
        y \in SeqsUpTo({T_Timeout}, MaxModuleStmts)}

TopInterp == interps[Len(interps)]
\* the interpreter on top is at a statement of its file
AtStatement(stmt) ==
    /\ mainLoop.pc = "toplevel"
    /\ TopInterp.ip <= Len(prog[TopInterp.file])
    /\ prog[TopInterp.file][TopInterp.ip].stmt = stmt
Advance(I) == [I EXCEPT !.ip = @ + 1]

\* execute_import of a module not in the cache: a new interpreter from with_dir,
\* which creates a new Runtime, executes the module
RtImportLoad ==
    LET module == prog[TopInterp.file][TopInterp.ip].module IN
    /\ AtStatement("import")
    /\ module \notin TopInterp.module_cache
    /\ runtimes' = Append(runtimes, Runtime_new)
    /\ interps' = Append(interps, Interpreter_on(module, Len(runtimes) + 1))
    /\ UNCHANGED <<registry, histVars, nops, loopVars, clearLog, extractVars, resp, envVars,
                   importVars, stmtVars, timers, mainLoop, pkgVars>>

\* execute_import of a module in the cache
RtImportCached ==
    /\ AtStatement("import")
    /\ prog[TopInterp.file][TopInterp.ip].module \in TopInterp.module_cache
    /\ interps' = [interps EXCEPT ![Len(interps)] = Advance(@)]
    /\ UNCHANGED <<registry, histVars, nops, loopVars, clearLog, extractVars, resp, envVars,
                   importVars, stmtVars, runtimes, timers, mainLoop, pkgVars>>

\* module_interpreter.execute(ast) returned: the module is cached and the module's
\* interpreter is dropped; its Runtime lives on in the tasks that hold it
RtModuleReturn ==
    LET n == Len(interps) IN
    /\ mainLoop.pc = "toplevel"
    /\ n > 1
    /\ TopInterp.ip > Len(prog[TopInterp.file])
    /\ interps' = [i \in 1..(n - 1) |->
                      IF i = n - 1
                      THEN Advance([interps[i] EXCEPT !.module_cache = @ \cup {TopInterp.file}])
                      ELSE interps[i]]
    /\ UNCHANGED <<registry, histVars, nops, loopVars, clearLog, extractVars, resp, envVars,
                   importVars, stmtVars, runtimes, timers, mainLoop, pkgVars>>

\* timer_timeout called by the interpreter on top: the handle is registered with
\* ctx.runtime, the Runtime of that interpreter, and the task keeps that Runtime
RtTimeout ==
    LET r == TopInterp.runtime
        added == add(runtimes[r].handles, [type |-> "Timeout", cancel_tx |-> TRUE]) IN
    /\ AtStatement("timer.timeout")
    /\ runtimes' = [runtimes EXCEPT ![r].handles = added.reg]
    /\ timers' = Append(timers, [runtime |-> r, id |-> added.id, by |-> TopInterp.file,
                                 state |-> "armed"])
    /\ interps' = [interps EXCEPT ![Len(interps)] = Advance(@)]
    /\ UNCHANGED <<registry, histVars, nops, loopVars, clearLog, extractVars, resp, envVars,
                   importVars, stmtVars, mainLoop, pkgVars>>

\* the sleep of a timeout task is over: the request goes to the callback_tx taken
\* from the task's Runtime
RtTimeoutFire(t) ==
    /\ mainLoop.pc # "exited"
    /\ timers[t].state = "armed"
    /\ runtimes' = [runtimes EXCEPT ![timers[t].runtime].callbackQ = Append(@, t)]
    /\ timers' = [timers EXCEPT ![t].state = "unreg"]
    /\ UNCHANGED <<registry, histVars, nops, loopVars, clearLog, extractVars, resp, envVars,
                   importVars, stmtVars, interps, mainLoop, pkgVars>>

\* runtime.unregister_handle(handle_id) at the end of the task
RtTaskUnregister(t) ==
    /\ mainLoop.pc # "exited"
    /\ timers[t].state = "unreg"
    /\ runtimes' = [runtimes EXCEPT ![timers[t].runtime].handles =
                        remove(@, timers[t].id).reg]
    /\ timers' = [timers EXCEPT ![t].state = "done"]
    /\ UNCHANGED <<registry, histVars, nops, loopVars, clearLog, extractVars, resp, envVars,
                   importVars, stmtVars, interps, mainLoop, pkgVars>>

\* run_file after interpreter.execute: `let runtime = interpreter.runtime()`, the
\* Runtime of the entry file's interpreter
MainRuntime == interps[1].runtime

\* `if handle_count > 0`, and the check at the head of the loop
RtLoopCheck ==
    /\ \/ mainLoop.pc = "toplevel" /\ Len(interps) = 1
          /\ TopInterp.ip > Len(prog[TopInterp.file])
       \/ mainLoop.pc = "loop"
    /\ mainLoop' = [mainLoop EXCEPT !.pc =
                        IF shutdown \/ count(runtimes[MainRuntime].handles) = 0
                        THEN "exited" ELSE "drain"]
    /\ UNCHANGED <<registry, histVars, nops, loopVars, clearLog, extractVars, resp, envVars,
                   importVars, stmtVars, runtimes, interps, timers, pkgVars>>

\* `while let Some(request) = runtime.run_event_loop_tick()`: the callback runs
RtDrainCallback ==
    /\ mainLoop.pc = "drain"
    /\ runtimes[MainRuntime].callbackQ # << >>
    /\ mainLoop' = [mainLoop EXCEPT !.executed = Append(@, Head(runtimes[MainRuntime].callbackQ))]
    /\ runtimes' = [runtimes EXCEPT ![MainRuntime].callbackQ = Tail(@)]
    /\ UNCHANGED <<registry, histVars, nops, loopVars, clearLog, extractVars, resp, envVars,
                   importVars, stmtVars, interps, timers, pkgVars>>

\* run_event_loop_tick() returned None: the rest of the tick, then the next one
RtDrainEmpty ==
    /\ mainLoop.pc = "drain"
    /\ runtimes[MainRuntime].callbackQ = << >>
    /\ mainLoop' = [mainLoop EXCEPT !.pc = "loop"]
    /\ UNCHANGED <<registry, histVars, nops, loopVars, clearLog, extractVars, resp, envVars,
                   importVars, stmtVars, runtimes, interps, timers, pkgVars>>

InitRuntimes ==
    /\ InitRuntime
    /\ prog \in TimerPrograms
    /\ program = << >>
    /\ R = V_Null
    /\ out = NoOut
    /\ url = << >>

NextRuntimes ==
    \/ RtImportLoad
    \/ RtImportCached
    \/ RtModuleReturn
    \/ RtTimeout
    \/ \E t \in DOMAIN timers : RtTimeoutFire(t) \/ RtTaskUnregister(t)
    \/ RtLoopCheck
    \/ RtDrainCallback
    \/ RtDrainEmpty

SpecRuntimes == InitRuntimes /\ [][NextRuntimes]_vars

\* --------------------------------------------------- PackageSpec::parse on URLs
\* str.rfind(c): the last position of the character, from 0
rfind(str, c) ==
    LET at == {i \in DOMAIN str : str[i] = c} IN
    IF at = {} THEN << >> ELSE <<(CHOOSE i \in at : \A j \in at : j <= i) - 1>>

\* str.find(c): Option<usize>, the first position of the character, from 0
find(str, c) ==
    LET at == {i \in DOMAIN str : str[i] = c} IN
    IF at = {} THEN << >> ELSE <<(CHOOSE i \in at : \A j \in at : i <= j) - 1>>

\* str.split(c).collect(): the parts between the occurrences of the character
RECURSIVE split(_, _)
split(str, c) ==
    LET idx == find(str, c) IN
    IF idx = << >> THEN <<str>>
    ELSE <<SubSeq(str, 1, idx[1])>> \o split(SubSeq(str, idx[1] + 2, Len(str)), c)

Main == <<"m", "a", "i", "n">>

\* PackageSpec::parse
PackageSpec_parse(u) ==
    LET idx == find(u, "@")
        base == IF idx # << >> THEN SubSeq(u, 1, idx[1]) ELSE u
        git_ref == IF idx # << >> THEN SubSeq(u, idx[1] + 2, Len(u)) ELSE Main
        parts == split(base, "/") IN
    IF Len(parts) # 3
    THEN Err(runtime_error(<<"Invalid", "package", "URL">> \o u))
    ELSE Ok([host |-> parts[1], owner |-> parts[2], repo |-> parts[3], git_ref |-> git_ref])

UrlChars == {"a", "/", "@"}
Urls == UNION {[1..n -> UrlChars] : n \in 0..MaxUrl}

InitParse ==
    /\ InitRuntime
    /\ prog = [f \in Files |-> << >>]
    /\ program = << >>
    /\ R = V_Null
    /\ out = NoOut
    /\ url \in Urls

\* Package installation parses the URL it was given
Parse ==
    /\ parsed = NoResult
    /\ parsed' = PackageSpec_parse(url)
    /\ UNCHANGED <<registry, histVars, nops, loopVars, clearLog, extractVars, resp, envVars,
                   importVars, stmtVars, rtVars, url>>

NextParse == Parse

SpecParse == InitParse /\ [][NextParse]_vars

\* ------------------------------------------------------------ properties

C9_RegistryTracksLive ==
    /\ count(registry) = Cardinality(live)
    /\ \A id \in 1..(MaxHandles + 1) : (get(registry, id) # << >>) <=> (id \in live)
    /\ lastOp.op = "remove" =>
          /\ lastOp.result <=> (lastOp.id \in lastOp.liveBefore)
          /\ ~lastOp.result => registry = lastOp.before
          /\ get(registry, lastOp.id) = << >>

\* the same id removed a second time
C9_Witness ==
    /\ lastOp.op = "remove"
    /\ ~lastOp.result
    /\ lastOp.id \in Range(issued)
    /\ live # {}

\* C1: every callback request posted by a timer task is executed before the drain
\* loop exits for lack of active handles: no request is left in the queue when the
\* loop ends on active_handle_count = 0.
C1_PostedCallbacksExecuted == exitBy = "nohandles" => lost = << >>

\* C3: after the drain loop ended on the shutdown flag, every web handler that was
\* already spawned has run to completion and sent its reply.
C3_InFlightHandlersComplete ==
    (pc = "done" /\ exitBy = "shutdown") =>
        \A c \in ChanIds : hs[c] \in {"none", "finished"}

\* C4: for every web callback request taken by the drain loop at most one value is
\* ever sent on its reply channel; once its handler task is over exactly one value
\* was sent (the result, or the substitute when the handler raised), and a request
\* without a reply has its sender dropped, which the acceptor awaiting it detects.
Taken(c) == hs[c] # "none"

C4_ExactlyOneReply ==
    \A c \in ChanIds :
        /\ reply[c].sends <= 1
        /\ ~Taken(c) => reply[c].sends = 0
        /\ hs[c] \in {"release", "finished"} =>
              /\ reply[c].sends = 1
              /\ reply[c].value \in {"result", "Error: e"}
        /\ (hs[c] = "dropped" /\ reply[c].sends = 0) => reply[c].tx = "dropped"
        /\ \A h \in HandleIds :
              (acc[h].st = "await" /\ acc[h].chan = c /\ reply[c].tx = "dropped")
                  => ENABLED AccDropped(h)

\* a handler that raised has answered with the substitute value
C4_Witness ==
    \E c \in ChanIds : hs[c] = "finished" /\ reply[c].value = "Error: e"

\* C5: the handlers executing at any moment hold one permit each, so they are never
\* more than the semaphore's permits; a handler has its permit from the spawn until
\* after its reply was sent.
Executing == {c \in ChanIds : HeldBy(c)}

C5_HandlersBoundedByPermits ==
    /\ permits >= 0
    /\ Cardinality(Executing) + permits = MaxPermits
    /\ Cardinality(Executing) <= MaxPermits
    /\ \A c \in ChanIds : hs[c] = "finished" => reply[c].sends = 1

\* every permit is taken while another request waits in the queue
C5_Witness ==
    /\ permits = 0
    /\ Cardinality(Executing) = MaxPermits
    /\ webQ # << >>
    /\ \E c \in ChanIds : hs[c] = "running"

\* C6: each timer callback runs to completion before the next one begins: at most
\* one timer callback is in execution, whatever the callback bodies do.
TimerFrame(e, i) ==
    /\ i \in DOMAIN stack[e]
    /\ IF e = 0 THEN stack[e][i].h # 0 ELSE i >= 2

C6_OneTimerCallbackAtATime ==
    \A e1, e2 \in Evals : \A i1, i2 \in 1..MaxDepth :
        (TimerFrame(e1, i1) /\ TimerFrame(e2, i2)) => (e1 = e2 /\ i1 = i2)

\* C7: the drain loop is between its permit check and its spawn only while a permit
\* is available, so acquire never blocks; from a check that finds no permit the loop
\* goes to the end of the tick and takes nothing off the web queue.
C7_Backpressure ==
    /\ [](pc \in {"web_recv", "web_acquire"} => permits > 0)
    /\ [](pc = "web_acquire" => ENABLED WebAcquire)
    /\ [][(pc = "web" /\ permits = 0 /\ pc' # "web") =>
              (pc' = "sleep" /\ webQ' = webQ /\ hs' = hs)]_vars

\* a tick that ended with a request left in the queue for lack of a permit
C7_Witness ==
    /\ pc = "sleep"
    /\ loop_batch = 0
    /\ permits = 0
    /\ webQ # << >>

\* C10: while the process runs, a handle is in the registry iff its owning task has
\* neither finished nor been cancelled.
TaskOver(h) == task[h] \in {"done", "panicked", "dropped"}

Cancelled(h) == cancelRx[h] \in {"sent", "closed"}

C10_HandleIffTaskLive ==
    Alive => \A h \in Range(issued) :
        (get(registry, h) # << >>) <=> (~TaskOver(h) /\ ~Cancelled(h))

\* C11: clear(handle) returns true and removes the registry entry when the id is
\* registered, sending on the cancel sender of an Interval or Timeout handle; it
\* returns false and leaves the registry unchanged when the id is unknown; a second
\* clear of the same handle returns false.
C11_ClearResult ==
    \A i \in DOMAIN clearLog :
        LET c == clearLog[i] IN
        /\ c.result <=> (c.id \in DOMAIN c.before.handles)
        /\ c.result =>
              /\ c.id \notin DOMAIN c.after.handles
              /\ c.after.handles = Without(c.before.handles, c.id)
              /\ c.before.handles[c.id].type \in TimerTypes => c.rx = "sent"
        /\ ~c.result => c.after = c.before
        /\ \A j \in DOMAIN clearLog :
              (i < j /\ c.result /\ clearLog[j].id = c.id) => ~clearLog[j].result

\* a timer cleared twice, true and then false, while another handle is registered
C11_Witness ==
    \E i, j \in DOMAIN clearLog :
        /\ i < j
        /\ clearLog[i].id = clearLog[j].id
        /\ clearLog[i].result /\ ~clearLog[j].result
        /\ clearLog[i].before.handles[clearLog[i].id].type \in TimerTypes
        /\ clearLog[j].before.handles # << >>

\* C13: if the reply channel of a web callback request is dropped before a reply is
\* sent, the HTTP response for that request has status 500.
C13_DroppedReplyIs500 ==
    \A c \in ChanIds : (reply[c].tx = "dropped" /\ resp[c] # 0) => resp[c] = 500

\* C14: when a web handler raises an error instead of returning a value, the web
\* bridge answers that request with HTTP status 500.
C14_HandlerErrorIs500 ==
    \A c \in ChanIds : (reply[c].value = "Error: e" /\ resp[c] # 0) => resp[c] = 500

\* C15: each web handler runs on a clone whose environment is independent of the
\* main evaluator's: a value bound or assigned by a handler is never visible in the
\* main environment or in another handler's, and every handler starts from the main
\* environment as it was when the handler was dispatched.
ValuesIn(scopes) == {scopes[i][n].value : <<i, n>> \in
                        {<<j, m>> \in (DOMAIN scopes) \X {"x", "y", "req", "res"} :
                             m \in DOMAIN scopes[j]}}

C15_HandlerEnvIsolated ==
    /\ [](\A c \in ChanIds : \A e \in Evals \ {c} : WrittenBy(c) \notin ValuesIn(env[e]))
    /\ [][\A c \in ChanIds :
             (hs[c] # "running" /\ hs'[c] = "running") =>
                 /\ pop_scope(env'[c]) = env[0]
                 /\ env'[0] = env[0]]_vars

\* the second handler at work after the first assigned x and the main evaluator
\* assigned x in a timer callback: it was given the main evaluator's x
C15_Witness ==
    /\ hs[1] = "finished" /\ hs[2] = "running"
    /\ Environment_get(env[1], "x") = <<WrittenBy(1)>>
    /\ Environment_get(env[0], "x") = <<WrittenBy(0)>>
    /\ Environment_get(env[2], "x") = <<WrittenBy(0)>>
    /\ Environment_get(env[2], "y") = <<WrittenBy(2)>>
    /\ Environment_get(env[0], "y") = << >>

\* C16: response materialization is a first-match function of the handler result R:
\* a map yields its numeric status, its stringified body, its contentType when that
\* is a string (otherwise inferred from the body's first non-whitespace character)
\* and its headers map; a string yields 200 with that body as text/plain; a number
\* yields that status with an empty body; null yields 204 with an empty body; any
\* other value yields 200 with its to-string as text/plain.
FirstNonWhitespace(str) ==
    LET idx == {i \in DOMAIN str : str[i] # " "} IN
    IF idx = {} THEN "" ELSE str[CHOOSE i \in idx : \A j \in idx : i <= j]

Inferred(body) ==
    IF FirstNonWhitespace(body) \in {"{", "["} THEN application_json
    ELSE IF FirstNonWhitespace(body) = "<" THEN text_html
    ELSE text_plain

Has(map, key, tag) == key \in DOMAIN map /\ map[key].tag = tag

\* the rules, with StatusOf(n, st) saying what status st a number n stands for
ResponseRules(r, o, StatusOf(_, _)) ==
    CASE r.tag = "Relic" ->
            /\ Has(r.map, K_status, "Number") => StatusOf(r.map[K_status], o.status)
            /\ o.body = IF K_body \in DOMAIN r.map THEN to_string(r.map[K_body])
                        ELSE << >>
            /\ o.content_type = IF Has(r.map, K_contentType, "String")
                                THEN r.map[K_contentType].s ELSE Inferred(o.body)
            /\ Has(r.map, K_headers, "Relic") =>
                  /\ DOMAIN o.headers = DOMAIN r.map[K_headers].map
                  /\ \A k \in DOMAIN o.headers :
                        o.headers[k] = to_string(r.map[K_headers].map[k])
            /\ ~Has(r.map, K_headers, "Relic") => o.headers = << >>
      [] r.tag = "String" ->
            o = [status |-> 200, body |-> r.s, content_type |-> text_plain,
                 headers |-> << >>]
      [] r.tag = "Number" ->
            /\ StatusOf(r, o.status)
            /\ o.body = << >> /\ o.headers = << >>
      [] r.tag = "Null" ->
            /\ o.status = 204
            /\ o.body = << >> /\ o.headers = << >>
      [] OTHER ->
            o = [status |-> 200, body |-> to_string(r), content_type |-> text_plain,
                 headers |-> << >>]

\* the number itself is the status
SameNumber(n, st) == n.frac = 0 /\ st = n.int

C16_ResponseOfResult == out # NoOut => ResponseRules(R, out, SameNumber)

\* C16 as amended: as C16, with the status of a number (or of a map's numeric status)
\* being the number converted to u16: its fraction dropped, and 0 or 65535 when it
\* lies below or above that range.
ConvertedNumber(n, st) ==
    /\ st \in 0..65535
    /\ n.int \in 0..65535 => st = n.int
    /\ n.int < 0 => st = 0
    /\ n.int > 65535 => st = 65535

C16_ResponseOfResultConverted == out # NoOut => ResponseRules(R, out, ConvertedNumber)

\* a map without contentType whose body starts with blanks and then '<', and whose
\* status is out of range
C16_Witness ==
    /\ out # NoOut
    /\ R.tag = "Relic"
    /\ Has(R.map, K_status, "Number") /\ R.map[K_status].int > 65535
    /\ Has(R.map, K_body, "String") /\ R.map[K_body].s = S_html
    /\ K_contentType \notin DOMAIN R.map
    /\ Has(R.map, K_headers, "Relic")
    /\ out.content_type = text_html

\* C17: for every import cycle, also one through the entry file, the import that
\* closes the cycle raises the circular-dependency error, whose message lists the
\* chain, before the target is read, parsed or executed again: no file is loaded
\* while it is being loaded.
Loading == {frames[i].file : i \in DOMAIN frames}

C17_CycleRaisedBeforeLoad ==
    /\ (Importing /\ CurrentImport(TopFrame).module \in Loading) => ENABLED ImportCircular
    /\ \A i, j \in DOMAIN frames : i < j => frames[i].file # frames[j].file
    /\ importErr.kind = "circular" =>
          \E i \in 1..(Len(importErr.chain) - 1) :
              importErr.chain[i] = importErr.chain[Len(importErr.chain)]

\* C18: during a whole program run the top-level code of each imported module is
\* executed at most once, also when several modules import it (stated for the
\* programs that do not import their entry file, which C17 is about).
EntryImported == \E f \in Files : \E i \in DOMAIN prog[f] : prog[f][i].module = "main"

C18_ModuleRunsOnce == ~EntryImported => \A f \in Files : runs[f] <= 1

\* C19: only exported global bindings are visible to importers: a selective import
\* of a global that is not exported binds nothing (it fails), and a whole-module
\* import exposes exactly the exported globals.
C19_OnlyExportsVisible ==
    \A i \in DOMAIN frames :
        LET global == frames[i].env[1] IN
        /\ \A name \in DOMAIN global :
              global[name].value.tag = "Number" =>
                  global[name].value \in {PubValue(f) : f \in Files}
        /\ \A f \in Files \cap DOMAIN global :
              global[f].value = V_Relic("pub" :> PubValue(f))

\* C20: in every reachable state the environment's scope stack holds at least one
\* scope: pop_scope on a stack that holds only the global scope leaves the
\* environment unchanged.
C20_GlobalScopeStays ==
    /\ \A e \in Evals : Len(env[e]) >= 1
    /\ (envOp.op = "pop" /\ Len(envOp.before) = 1) => env[0] = envOp.before
    /\ (envOp.op = "pop" /\ Len(envOp.before) > 1) =>
           env[0] = SubSeq(envOp.before, 1, Len(envOp.before) - 1)

\* a pop on the global scope alone, which holds a binding
C20_Witness ==
    /\ envOp.op = "pop"
    /\ Len(envOp.before) = 1
    /\ envOp.before[1] # << >>

RECURSIVE Count(_, _)
Count(trace, line) ==
    IF trace = << >> THEN 0
    ELSE (IF Head(trace) = line THEN 1 ELSE 0) + Count(Tail(trace), line)

\* the program is one attempt without retry, executed, whose body raised
AttemptRaised ==
    /\ ip = 2
    /\ program \in AttemptPrograms
    /\ Len(program[1].body) > 1

\* the clauses whose Kind is absent or is the kind of the error raised
Matching ==
    {i \in DOMAIN program[1].rescue_clauses :
        program[1].rescue_clauses[i].error_type
            \in {<< >>, <<RaisedKind(program[1].body[2])>>}}

RescueRaising == \E i \in DOMAIN program[1].rescue_clauses :
                     Len(program[1].rescue_clauses[i].body) > 1
FinallyRaising == program[1].finally_block # << >> /\ Len(program[1].finally_block[1]) > 1

\* C22: when an attempt body raises E, only the first rescue clause whose Kind is
\* absent or equals E's kind runs, and without retry its body runs exactly once and
\* the attempt completes with null; when no clause matches, E propagates unchanged.
C22_FirstMatchingRescue ==
    AttemptRaised =>
        /\ \A i \in DOMAIN program[1].rescue_clauses :
               Count(interp.trace, RescueLine(i)) =
                   IF i \in Matching /\ \A j \in Matching : i <= j THEN 1 ELSE 0
        /\ Count(interp.trace, LineOf("after")) = 0
        /\ (Matching # {} /\ ~RescueRaising /\ ~FinallyRaising) => stmtResult = Ok_None
        /\ (Matching = {} /\ ~FinallyRaising) =>
               /\ IsErr(stmtResult)
               /\ stmtResult.err.kind = RaisedKind(program[1].body[2])
               /\ stmtResult.err \in {FlowErrorAt("Panic", <<"panic">>, 12),
                                       FlowErrorAt("Spirit", <<"rupture">>, 12),
                                       division_by_zero}

\* a Spirit error met a Panic clause and then a catch-all: the second clause ran
C22_Witness ==
    /\ AttemptRaised
    /\ RaisedKind(program[1].body[2]) = "Spirit"
    /\ Len(program[1].rescue_clauses) = 2
    /\ program[1].rescue_clauses[1].error_type = <<"Panic">>
    /\ program[1].rescue_clauses[2].error_type = << >>
    /\ Count(interp.trace, RescueLine(2)) = 1
    /\ stmtResult = Ok_None

\* the program is an attempt with `retry N`, executed; its body fails K times
RetryDone == program \in RetryPrograms /\ ip = 3
FailuresK == program[2].body[2].condition.right.n - 1
RetryN == program[2].rescue_clauses[1].retry_count[1]

\* C23: when the body of an attempt with a `retry N` rescue fails K < N times and
\* then succeeds, the result of the attempt is what the successful run of the body
\* returned last.
C23_RetryYieldsLastReturn ==
    (RetryDone /\ FailuresK < RetryN) =>
        stmtResult = IF program[2].body[3].type = "Return"
                     THEN Ok_Some(V_Number(42, 0)) ELSE Ok_None

\* the program is one attempt with a finally block, executed
AttemptWithFinally ==
    /\ ip = 2
    /\ program \in AttemptPrograms
    /\ program[1].finally_block # << >>

\* C24: the finally block of an attempt runs exactly once on every exit path of the
\* statement (body success, rescued error, unmatched error, error raised in a rescue
\* body), and an error the finally block raises replaces the statement's result.
C24_FinallyRunsOnce ==
    AttemptWithFinally =>
        /\ Count(interp.trace, LineOf("finally")) = 1
        /\ FinallyRaising =>
               /\ IsErr(stmtResult)
               /\ stmtResult.err = FlowErrorAt("Glitch", <<"rupture">>, LineOf("finally") + 1)

\* the program is a ward whose body raises, and the ward has been executed
WardDone == program \in WardPrograms /\ ip >= 3

\* C25: a ward never propagates an error: for any kind of error raised in its body,
\* Panic included, the rest of the body is skipped, the error is logged, the statement
\* completes with null and the program goes on after it.
C25_WardSwallows ==
    WardDone =>
        /\ Count(interp.trace, LineOf("body")) = 1
        /\ Count(interp.trace, LineOf("after")) = 0
        /\ Len(interp.absorbed) = 1
        /\ interp.absorbed[1].kind = RaisedKind(program[1].body[1])
        /\ ip = 3 => stmtResult = Ok_None
        /\ ip = 4 => Count(interp.trace, LineOf("next")) = 1 /\ stmtResult = Ok_None

\* a Panic raised in a function the ward called was swallowed, the next statement ran
C25_Witness ==
    /\ WardDone
    /\ ip = 4
    /\ program[1].body[1].type = "Panic"
    /\ program[2].body[2].type = "Expression"
    /\ interp.absorbed = <<FlowErrorAt("Panic", <<"panic">>, program[1].body[1].line)>>
    /\ Count(interp.trace, LineOf("next")) = 1

\* the program is a loop whose body breaks or continues, and the loop has been executed
LoopDone == program \in LoopPrograms /\ ip >= 2

\* the break or continue of the loop body, and what stands around it
SignalOf(stmt) ==
    CASE stmt.type \in {"BreakSeal", "FractureSeal"} -> stmt
      [] stmt.type = "Stance" -> stmt.then_branch[1]
      [] stmt.type \in {"Ward", "Attempt"} -> stmt.body[1]

\* C26: a break or continue raised inside a ward, or inside an attempt with a
\* catch-all rescue, in a loop is not caught by the ward or the rescue: it exits the
\* loop, or starts its next iteration, as it does outside them.
C26_SignalsReachLoop ==
    LoopDone =>
        /\ Count(interp.trace, LineOf("after")) = 0
        /\ Count(interp.trace, RescueLine(1)) = 0
        /\ interp.absorbed = << >>
        /\ Count(interp.trace, LineOf("body")) =
               IF SignalOf(program[1].body[2]).type = "BreakSeal" THEN 1 ELSE 2

\* the program called a function whose body returns, and bound the result
ReturnDone == program \in ReturnPrograms /\ ip = 3

\* C27: a return (or shatter grand_seal) executed anywhere in a function body, also
\* nested in a stance, aura, loop, ward or attempt, ends the function: no later
\* statement of the body is executed and the call yields the returned value.
C27_ReturnEndsFunction ==
    ReturnDone =>
        /\ Count(interp.trace, 12) = 1
        /\ Count(interp.trace, LineOf("inner")) = 0
        /\ Count(interp.trace, LineOf("after")) = 0
        /\ Environment_get(interp.env, "r") = <<V_Number(42, 0)>>

\* the program evaluated `left both! f()` or `left either! f()`
LogicDone == program \in LogicPrograms /\ ip = 3

\* the left operand decides the result: falsy for both!, truthy for either!
LeftTruthy == program[2].value.left \in {E_Boolean(TRUE), E_Number(1)}
LeftDecides == LeftTruthy <=> program[2].value.operator = "Either"

\* C28: both! does not evaluate its right operand when the left is falsy, and either!
\* does not when the left is truthy: the effects and the errors of the skipped
\* operand never occur, and the result is the one the left operand decides.
C28_ShortCircuit ==
    (LogicDone /\ LeftDecides) =>
        /\ Count(interp.trace, LineOf("body")) = 0
        /\ stmtResult = Ok_None
        /\ Environment_get(interp.env, "r") = <<V_Boolean(LeftTruthy)>>

\* the program is a division, executed
DivideDone == program \in DividePrograms /\ ip = 3

\* the divisor of the program is zero: as a literal, as a sum, or as the variable b
ZeroLiteral(e) ==
    \/ e = E_Number(0)
    \/ e.type = "Binary" /\ e.right = E_Number(0)
DivisorZero ==
    LET divisor == program[2].value.right IN
    \/ ZeroLiteral(divisor)
    \/ divisor.type = "Identifier" /\ program[1].value = E_Number(0)

\* C29: evaluating a / b with b = 0 always raises DivisionByZero, never another error
\* or a number; also for literal operands, which the optimizer leaves as a division
\* for the evaluator to raise on.
C29_DivisionByZeroRaises ==
    /\ (program \in DividePrograms /\ ast.optimized /\ ZeroLiteral(program[2].value.right)) =>
           ast.statements[2].value =
               E_Binary(program[2].value.left, "Divide", E_Number(0))
    /\ (DivideDone /\ DivisorZero) =>
           /\ IsErr(stmtResult)
           /\ stmtResult.err.kind = "DivisionByZero"
           /\ Environment_get(interp.env, "r") = << >>

\* the literal division 1 / 0 went through the optimizer and raised when executed
C29_Witness ==
    /\ DivideDone
    /\ program[2].value = E_Binary(E_Number(1), "Divide", E_Number(0))
    /\ ast.statements[2] = program[2]
    /\ stmtResult = Err(division_by_zero)

\* the program applied an operation to the array arr and bound the result to arr2
ArrayDone == program \in ArrayPrograms /\ ip = 5

\* the array [1, .., n] and the sum of its elements
Numbers(n) == [i \in 1..n |-> V_Number(i, 0)]
RECURSIVE SumTo(_)
SumTo(n) == IF n = 0 THEN 0 ELSE n + SumTo(n - 1)

\* what the operation of the program yields on [1, .., n]; pop is left open
Yields(method, n, v) ==
    CASE method \in {"push", "concat"} -> v = V_Array(Append(Numbers(n), V_Number(4, 0)))
      [] method = "reverse" ->
            v = V_Array([i \in 1..n |-> V_Number(n + 1 - i, 0)])
      [] method = "slice" -> n >= 1 /\ v = V_Array(<<V_Number(1, 0)>>)
      [] method = "constellation" -> v = V_Array([i \in 1..n |-> V_Boolean(i < 2)])
      [] method = "filter" -> v = V_Array([i \in 1..(IF n = 0 THEN 0 ELSE 1) |-> V_Number(1, 0)])
      [] method = "reduce" -> v = V_Number(SumTo(n), 0)
      [] method = "pop" -> TRUE

CallDone == program \in FunctionPrograms /\ call.made

\* the lines of the return and shatter statements the call reached, in order
ReturnsReached ==
    SelectSeq(SubSeq(interp.trace, Len(call.before.trace) + 1, Len(interp.trace)),
              LAMBDA line : line \in ReturnLines)

\* parameter k of f has an argument in the call
HasArgument(k) == k <= Len(program[1].params) /\ k <= Len(call.args)

\* what the return on a line returns: a literal, or the argument at the position of
\* the parameter; an error of kind Undefined where the parameter has no argument
Returned(line) ==
    CASE line = 50 -> Ok(V_Null)
      [] line \in {51, 52} -> Ok(V_Number(line - 50, 0))
      [] line \in {61, 62} ->
            IF HasArgument(line - 60) THEN Ok(call.args[line - 60])
            ELSE Err(undefined_error("a"))

\* C31: execute_function on a user function binds the arguments to the parameters by
\* position in a scope of its own and returns the value of the first return or
\* shatter reached, null when control falls through the body.
C31_ExecuteFunctionReturns ==
    CallDone =>
        IF ReturnsReached = << >> THEN call.result = Ok(V_Null) /\ interp.env = call.before.env
        ELSE LET first == Returned(ReturnsReached[1]) IN
             IF IsErr(first)
             THEN IsErr(call.result) /\ call.result.err.kind = first.err.kind
             ELSE call.result = first /\ interp.env = call.before.env

\* the attempt of the program raised and its rescue clause `as e` matched
BindDone ==
    /\ program \in BindPrograms
    /\ ip = 2
    /\ program[1].rescue_clauses[1].error_type \in {<< >>, <<program[1].body[1].error_type>>}

\* the message the rupture was given, as a string
MessageGiven ==
    LET message == program[1].body[1].message IN
    IF message.type = "String" THEN message.s ELSE Digits(message.n)

\* C32: when a rescue clause with `as name` matches, name is bound to exactly the
\* error's message string ("down" for `rupture Rift "down"`) and the attempt's
\* result is null.
C32_RescueBindsMessage ==
    BindDone =>
        /\ Environment_get(interp.env, "e") = <<V_String(MessageGiven)>>
        /\ stmtResult = Ok_None

\* the timeout tasks whose handle is registered
Registered_(S) == {t \in DOMAIN timers : timers[t].state # "done" /\ timers[t].by \in S}

\* C33: there is one Runtime per process: a handle registered while the top-level
\* code of an imported module runs is counted by the active_handle_count of the main
\* drain loop, and its callback requests arrive on the queue that loop drains.
C33_OneRuntimePerProcess ==
    /\ \A t \in Registered_({"a", "d"}) :
           /\ timers[t].runtime = MainRuntime
           /\ count(runtimes[MainRuntime].handles) >= Cardinality(Registered_(Files))
    /\ \A r \in DOMAIN runtimes : runtimes[r].callbackQ # << >> => r = MainRuntime

\* the positions of a character in the URL
Positions(c, upto) == {i \in 1..upto : url[i] = c}
\* the end of the base: before the first '@', or the end of the URL
BaseEnd == IF Positions("@", Len(url)) = {} THEN Len(url)
           ELSE (CHOOSE i \in Positions("@", Len(url)) :
                     \A j \in Positions("@", Len(url)) : i <= j) - 1

\* C34: PackageSpec::parse(url) splits url at its first '@' into a base and a git
\* ref ("main" when there is no '@'), succeeds iff the base has exactly three
\* '/'-separated parts, which it returns unchanged as host, owner and repo, and
\* returns a Runtime error otherwise.
C34_ParsePackageUrl ==
    parsed # NoResult =>
        IF Cardinality(Positions("/", BaseEnd)) = 2
        THEN /\ parsed.tag = "Ok"
             /\ parsed.value.host \o <<"/">> \o parsed.value.owner \o <<"/">>
                    \o parsed.value.repo = SubSeq(url, 1, BaseEnd)
             /\ \A part \in {parsed.value.host, parsed.value.owner, parsed.value.repo} :
                    "/" \notin Range(part)
             /\ parsed.value.git_ref =
                    IF BaseEnd = Len(url) THEN Main ELSE SubSeq(url, BaseEnd + 2, Len(url))
        ELSE IsErr(parsed) /\ parsed.err.kind = "Runtime"

\* a URL with a ref that holds a second '@' was parsed
C34_Witness ==
    /\ parsed # NoResult
    /\ parsed.tag = "Ok"
    /\ Cardinality(Positions("@", Len(url))) = 2
    /\ parsed.value.host = <<"a">>

\* the runs of the attempt body after its first run, and the runs that succeeded
Reruns == Count(interp.trace, LineOf("body")) - 1
Successes == Count(interp.trace, 13)
Min(a, b) == IF a <= b THEN a ELSE b

\* C35: with `retry N`, after the attempt body first fails the rescue body runs and
\* the body is re-run, up to N re-runs: every failing re-run consumes one retry, the
\* first re-run that raises no error ends the loop, and the body is never re-run
\* after a success.
C35_RetryRerunsBody ==
    (RetryDone /\ FailuresK >= 1) =>
        /\ Count(interp.trace, RescueLine(1)) >= 1
        /\ Reruns = Min(FailuresK, RetryN)
        /\ Successes = IF FailuresK <= RetryN THEN 1 ELSE 0

\* the retries of the attempt are used up: no run of the body succeeded
RetriesExhausted == RetryDone /\ FailuresK >= 1 /\ Successes = 0

\* C36: when a `retry N` rescue exhausts its retries with the attempt body still
\* failing, the attempt statement completes normally with null: the last error is
\* not propagated to the enclosing code.
C36_ExhaustedRetryYieldsNull ==
    RetriesExhausted => stmtResult = Ok_None /\ ProgramDone

\* retry 2 on a body that fails twice: run, rescue, re-run, rescue, null
C36_Witness ==
    /\ RetriesExhausted
    /\ RetryN = 2
    /\ Reruns = 1
    /\ Count(interp.trace, RescueLine(1)) = 2

\* C37: scope depth is restored by every construct: after a stance or aura branch, a
\* loop, a function call or execute_function finishes (normally, by return, by
\* break/continue, or by an error that an attempt or a ward catches or the callback
\* drain logs), the environment's scope depth is what it was before the construct.
C37_ScopeDepthRestored ==
    /\ (ast.optimized /\ ~IsErr(stmtResult)) => scope_depth(interp.env) = 0
    /\ call.made => scope_depth(interp.env) = scope_depth(call.before.env)

\* C38: after execute_import returns, successfully or with an error, the loading
\* stack equals its value before the call, so that a module whose load failed can be
\* imported again by the same evaluator (in the REPL) without being reported as a
\* circular dependency.
C38_LoadingStackRestored ==
    /\ (Len(frames) = 1 \/ importErr # NoError) => frames[1].loading_stack = << >>
    /\ importErr.kind = "circular" => Len(frames) > 1

\* C39: for each HTTP server at most one web callback request is outstanding at any
\* time: the request task of a server posts its next request only after the one
\* before was answered (a reply arrived, or the reply channel was dropped), so the
\* requests of one server are handled one after another in the order they arrived;
\* the handler of a request is never started before the earlier requests of the
\* same server were answered.
PostedBy(h) == {c \in ChanIds : reply[c].rx = h}
Answered(c) == resp[c] # 0
Outstanding(h) == {c \in PostedBy(h) : ~Answered(c)}

C39_OneOutstandingPerServer ==
    \A h \in HandleIds :
        /\ Cardinality(Outstanding(h)) <= 1
        /\ \A c \in PostedBy(h) : \A d \in PostedBy(h) :
              c < d => /\ Answered(c)
                       /\ reply[c].tx \in {"sent", "dropped"}
                       /\ hs[c] \notin {"none", "running", "reply_ok", "reply_err"}

\* a server whose first request was answered and whose second one is with a handler
C39_Witness ==
    \E h \in HandleIds : \E c \in PostedBy(h) : \E d \in PostedBy(h) :
        c < d /\ Answered(c) /\ hs[d] = "running" /\ Outstanding(h) = {d}

\* C40: timer callbacks are executed only by the main evaluator, hence never
\* concurrently with each other: no evaluator clone made for a web handler ever
\* takes a request from the timer-callback queue and executes it, whatever the
\* handler body does.
OnClone(e) == \E i \in 1..MaxDepth : TimerFrame(e, i)

C40_TimerCallbacksOnMainOnly ==
    /\ [](\A e \in ChanIds : ~OnClone(e))
    /\ [][\A e \in ChanIds :
             Len(stack'[e]) > Len(stack[e]) => callbackQ' = callbackQ]_vars

\* ------------------------------------------ the timer side with fair scheduling
\* the steps of run_file and of the main interpreter
MainStep ==
    \/ TopReturn
    \/ PreCheck
    \/ LoopCheck
    \/ DrainCallback
    \/ DrainEmpty
    \/ WebCheck
    \/ WebRecv
    \/ Sleep
    \/ Teardown
    \/ CallbackReturn(0)

NextDrain ==
    \/ TopTimeout("plain")
    \/ TopInterval("plain")
    \/ \E id \in HandleIds : TopClear(id)
    \/ Sigint
    \/ MainStep
    \/ \E h \in HandleIds : TimeoutFire(h)
    \/ \E h \in HandleIds : IntervalTick(h)
    \/ \E h \in HandleIds : TimerCancelled(h)
    \/ \E h \in HandleIds : TaskUnregister(h)

\* the main task and every spawned task keep being scheduled
LiveSpec ==
    /\ Init
    /\ [][NextDrain]_vars
    /\ WF_vars(MainStep)
    /\ \A h \in HandleIds :
          /\ WF_vars(TimeoutFire(h))
          /\ WF_vars(TimerCancelled(h))
          /\ WF_vars(TaskUnregister(h))

\* C12: after clear(handle) has returned true for an interval or timeout, the timer
\* task's next race resolves to the cancel branch: the task posts no further callback
\* request, so the number of requests it has posted never grows again.
C12_NoPostAfterClear ==
    [][\A h \in HandleIds :
          (cancelRx[h] = "sent" /\ Len(callbackQ') > Len(callbackQ))
              => callbackQ'[Len(callbackQ')].h # h]_vars

\* C2: the drain loop terminates: once the shutdown flag is set, or no handle is
\* left, the loop reaches its check and exits.
C2_LoopTerminates ==
    /\ (shutdown ~> pc \notin LoopPcs)
    /\ ((pc \in LoopPcs /\ active_handle_count = 0) ~> pc \notin LoopPcs)

====
